---- MODULE Spec2Model ----
(***************************************************************************)
(* Model of contracts/JustTimelockUpgradeable.sol: the threat-tiered       *)
(* timelock.  The contract storage is one record (field names are the      *)
(* Solidity storage variables); every external function is an operator     *)
(* from the storage at function entry to the storage at function exit and  *)
(* a result code.  A revert returns the entry storage (EVM rollback).       *)
(* Functions that make an external call (target.call) are split around the *)
(* call: the part before it pushes a frame, the target may then re-enter   *)
(* the contract, and the return of the call runs the rest of the function. *)
(* Time is counted in days.                                                *)
(***************************************************************************)
EXTENDS Integers, Sequences, FiniteSets, TLC

\* ------------------------------------------------------------------ bounds
MaxTime == 4
MaxTx == 2
\* largest delay, in days, that a configuration call is given
MaxCfg == 3

\* ------------------------------------------------------- program constants
InitialMaxDelay == 30
InitialGracePeriod == 14
InitialLowThreatDelay == 1
InitialMediumThreatDelay == 3
InitialHighThreatDelay == 7
InitialCriticalThreatDelay == 14
InitialTokenThreshold == 1

\* --------------------------------------------------------------- addresses
Zero == "zero"
Self == "self"
Token == "token"
Admin == "admin"
EOAs == {"admin", "prop", "exec", "user"}
Contracts == {"tgt"}
Accounts == EOAs \cup Contracts \cup {Self}

\* ------------------------------------------------------------------- roles
ADMIN_ROLE == "ADMIN_ROLE"
PROPOSER_ROLE == "PROPOSER_ROLE"
EXECUTOR_ROLE == "EXECUTOR_ROLE"
CANCELLER_ROLE == "CANCELLER_ROLE"
GUARDIAN_ROLE == "GUARDIAN_ROLE"
GOVERNANCE_ROLE == "GOVERNANCE_ROLE"
TIMELOCK_ADMIN_ROLE == "TIMELOCK_ADMIN_ROLE"
DEFAULT_ADMIN_ROLE == "DEFAULT_ADMIN_ROLE"
Roles == {ADMIN_ROLE, PROPOSER_ROLE, EXECUTOR_ROLE, CANCELLER_ROLE,
          GUARDIAN_ROLE, GOVERNANCE_ROLE, TIMELOCK_ADMIN_ROLE, DEFAULT_ADMIN_ROLE}

\* ------------------------------------------------------------ threat levels
ThreatLevel == {"LOW", "MEDIUM", "HIGH", "CRITICAL"}

\* ---------------------------------------------------------------- payloads
\* A payload is a sequence of bytes; a selector is its first four bytes.
SelTransfer == <<1, 1, 1, 1>>
SelUpdateDelays == <<2, 2, 2, 2>>
SelUpdateThreatLevelDelays == <<3, 3, 3, 3>>
SelUpgradeTo == <<4, 4, 4, 4>>
Selectors == {SelTransfer, SelUpdateDelays, SelUpdateThreatLevelDelays, SelUpgradeTo}

EncodeUpdateDelays(a, b, c) == SelUpdateDelays \o <<a, b, c>>
EncodeUpdateThreatLevelDelays(a, b, c, d) == SelUpdateThreatLevelDelays \o <<a, b, c, d>>

VARIABLES
  s,        \* the contract storage
  now,      \* block.timestamp
  stack,    \* external calls in progress (innermost last)
  last,     \* the most recent call of a contract function and its result
  oracle,   \* the token contract: balanceOf, and whether the call throws
  wasCanceled, \* history: the hashes cancelTransaction has accepted
  called    \* history: the hashes whose target.call has returned success

vars == <<s, now, stack, last, oracle, wasCanceled, called>>

\* --------------------------------------------------------- storage helpers
NOT_ENTERED == FALSE
ENTERED == TRUE

ZeroTx == [target |-> Zero, value |-> 0, data |-> <<>>, eta |-> 0,
           executed |-> FALSE, canceled |-> FALSE]

\* _timelockTransactions[txHash]: an unwritten slot reads as zeros
Txn(st, txHash) ==
  IF txHash \in DOMAIN st._timelockTransactions
  THEN st._timelockTransactions[txHash] ELSE ZeroTx

SetTxn(st, txHash, rec) ==
  [st EXCEPT !._timelockTransactions =
     [h \in (DOMAIN st._timelockTransactions) \cup {txHash} |->
        IF h = txHash THEN rec ELSE st._timelockTransactions[h]]]

hasRole(st, role, account) == account \in st._roles[role]
getRoleMemberCount(st, role) == Cardinality(st._roles[role])

\* variant of Hash that leaves eta out of the encoding
Hash_withoutEta(target, value, data, eta) == <<target, value, data, 0>>

\* keccak256(abi.encode(target, value, data, eta)), taken as collision free
Hash(target, value, data, eta) == <<target, value, data, eta>>

\* results
Revert(entry, err) == [s |-> entry, r |-> err]
Ok(st) == [s |-> st, r |-> "ok"]
Reverted(res) == res.r \notin {"ok", "call", "CallFailed"}


\* ------------------------------------------------------------ ThreatClassifier
Selector(data) == SubSeq(data, 1, 4)

\* variant of getThreatLevel that looks at the selector first
getThreatLevel_selectorFirst(st, target, data) ==
  LET addressLevel == st.addressThreatLevels[target]
      functionLevel ==
        IF Len(data) >= 4 /\ Selector(data) \in DOMAIN st.functionThreatLevels
        THEN st.functionThreatLevels[Selector(data)] ELSE "LOW"
  IN IF functionLevel # "LOW" THEN functionLevel ELSE addressLevel

getThreatLevel(st, target, data) ==
  LET addressLevel == st.addressThreatLevels[target] IN
  IF addressLevel # "LOW" THEN addressLevel
  ELSE IF Len(data) >= 4
       THEN LET functionLevel ==
                  IF Selector(data) \in DOMAIN st.functionThreatLevels
                  THEN st.functionThreatLevels[Selector(data)] ELSE "LOW"
            IN IF functionLevel # "LOW" THEN functionLevel ELSE "LOW"
       ELSE "LOW"

\* ----------------------------------------------------------------- DelayPolicy
getDelayForThreatLevel(st, level) ==
  IF level = "CRITICAL" THEN st.criticalThreatDelay
  ELSE IF level = "HIGH" THEN st.highThreatDelay
  ELSE IF level = "MEDIUM" THEN st.mediumThreatDelay
  ELSE st.lowThreatDelay

\* ------------------------------------------------------------ AuthorizationGate
\* try justToken.balanceOf(user) catches a revert raised inside the token; a
\* token address that holds no code makes the call statement itself revert in
\* the timelock, which no catch clause receives
balanceOfReverts(st, orc) == st.justToken # Zero /\ ~orc.code

\* variant of isAuthorizedByTokens that asks for more than the threshold
isAuthorizedByTokens_strict(st, orc, user) ==
  IF st.justToken = Zero THEN FALSE
  ELSE IF orc.throws THEN FALSE
  ELSE orc.balanceOf[user] > st.minExecutorTokenThreshold

isAuthorizedByTokens(st, orc, user) ==
  IF st.justToken = Zero THEN FALSE
  ELSE IF orc.throws THEN FALSE
  ELSE orc.balanceOf[user] >= st.minExecutorTokenThreshold

\* ------------------------------------------------------------------- queueing
\* variant of _queueTransaction that does not validate the delay
_queueTransaction_anyDelay(st, sender, target, value, data, delay, level, t) ==
  IF target = Zero THEN Revert(st, "ZeroAddress")
  ELSE LET txHash == Hash(target, value, data, t + delay)
           eta == t + delay
       IN IF txHash \in st.queuedTransactions THEN Revert(st, "TxAlreadyQueued")
          ELSE LET stored == SetTxn(st, txHash,
                               [target |-> target, value |-> value, data |-> data,
                                eta |-> eta, executed |-> FALSE, canceled |-> FALSE])
               IN Ok([stored EXCEPT !.queuedTransactions = @ \cup {txHash}])

_queueTransaction(st, sender, target, value, data, delay, level, t) ==
  IF target = Zero THEN Revert(st, "ZeroAddress")
  ELSE IF delay < st.minDelay THEN Revert(st, "DelayTooShort")
  ELSE IF delay > st.maxDelay THEN Revert(st, "DelayTooLong")
  ELSE LET txHash == Hash(target, value, data, t + delay)
           eta == t + delay
       IN IF txHash \in st.queuedTransactions THEN Revert(st, "TxAlreadyQueued")
          ELSE LET stored == SetTxn(st, txHash,
                               [target |-> target, value |-> value, data |-> data,
                                eta |-> eta, executed |-> FALSE, canceled |-> FALSE])
               IN Ok([stored EXCEPT !.queuedTransactions = @ \cup {txHash}])

queueTransactionWithThreatLevel(st, orc, sender, target, value, data, t) ==
  IF st._paused THEN Revert(st, "Paused")
  ELSE IF balanceOfReverts(st, orc) THEN Revert(st, "TokenCallReverted")
  ELSE LET authorizedByTokens == isAuthorizedByTokens(st, orc, sender)
           authorizedByRole == hasRole(st, PROPOSER_ROLE, sender)
       IN IF ~authorizedByTokens /\ ~authorizedByRole THEN Revert(st, "NotAuthorized")
          ELSE LET level == getThreatLevel(st, target, data)
                   delay == getDelayForThreatLevel(st, level)
               IN _queueTransaction(st, sender, target, value, data, delay, level, t)

queueTransaction(st, sender, target, value, data, delay, t) ==
  IF st._paused THEN Revert(st, "Paused")
  ELSE IF target = Zero THEN Revert(st, "ZeroAddress")
  ELSE IF delay < st.minDelay THEN Revert(st, "DelayTooShort")
  ELSE IF delay > st.maxDelay THEN Revert(st, "DelayTooLong")
  ELSE IF ~hasRole(st, PROPOSER_ROLE, sender) THEN Revert(st, "NotAuthorized")
  ELSE LET level == getThreatLevel(st, target, data)
       IN _queueTransaction(st, sender, target, value, data, delay, level, t)

\* queue a call of updateDelays on the timelock itself
queueDelayUpdate(st, orc, sender, newMinDelay, newMaxDelay, newGracePeriod, t) ==
  IF st._paused THEN Revert(st, "Paused")
  ELSE IF newMinDelay = 0 THEN Revert(st, "ZeroDelay")
  ELSE IF newMaxDelay < newMinDelay THEN Revert(st, "InvalidParams")
  ELSE IF newGracePeriod = 0 THEN Revert(st, "InvalidParams")
  ELSE IF ~hasRole(st, PROPOSER_ROLE, sender) THEN Revert(st, "NotAuthorized")
  ELSE queueTransactionWithThreatLevel(st, orc, sender, Self, 0,
         EncodeUpdateDelays(newMinDelay, newMaxDelay, newGracePeriod), t)

\* queue a call of updateThreatLevelDelays on the timelock itself
queueThreatLevelDelaysUpdate(st, orc, sender, newLowDelay, newMediumDelay, newHighDelay, newCriticalDelay, t) ==
  IF st._paused THEN Revert(st, "Paused")
  ELSE IF newLowDelay < st.minDelay THEN Revert(st, "DelayTooShort")
  ELSE IF newMediumDelay < newLowDelay THEN Revert(st, "DelayHierarchyViolation")
  ELSE IF newHighDelay < newMediumDelay THEN Revert(st, "DelayHierarchyViolation")
  ELSE IF newCriticalDelay < newHighDelay THEN Revert(st, "DelayHierarchyViolation")
  ELSE IF newCriticalDelay > st.maxDelay THEN Revert(st, "DelayTooLong")
  ELSE IF ~hasRole(st, PROPOSER_ROLE, sender) THEN Revert(st, "NotAuthorized")
  ELSE queueTransactionWithThreatLevel(st, orc, sender, Self, 0,
         EncodeUpdateThreatLevelDelays(newLowDelay, newMediumDelay, newHighDelay,
                                       newCriticalDelay), t)

\* ------------------------------------------------------------- configuration
\* variant of updateDelays that admits role holders only
updateDelays_rolesOnly(st, sender, newMinDelay, newMaxDelay, newGracePeriod) ==
  IF ~hasRole(st, ADMIN_ROLE, sender) /\ ~hasRole(st, GOVERNANCE_ROLE, sender)
  THEN Revert(st, "NotAuthorized")
  ELSE IF newMinDelay = 0 THEN Revert(st, "ZeroDelay")
  ELSE IF newMaxDelay < newMinDelay THEN Revert(st, "InvalidParams")
  ELSE IF newGracePeriod = 0 THEN Revert(st, "InvalidParams")
  ELSE Ok([st EXCEPT !.minDelay = newMinDelay, !.maxDelay = newMaxDelay,
                     !.gracePeriod = newGracePeriod])

\* variant of updateDelays that moves the eta of stored actions up to the
\* new minimum delay
updateDelays_moveEtas(st, sender, newMinDelay, newMaxDelay, newGracePeriod) ==
  IF ~hasRole(st, ADMIN_ROLE, sender) /\ ~hasRole(st, GOVERNANCE_ROLE, sender)
     /\ sender # Self
  THEN Revert(st, "NotAuthorized")
  ELSE IF newMinDelay = 0 THEN Revert(st, "ZeroDelay")
  ELSE IF newMaxDelay < newMinDelay THEN Revert(st, "InvalidParams")
  ELSE IF newGracePeriod = 0 THEN Revert(st, "InvalidParams")
  ELSE Ok([st EXCEPT !.minDelay = newMinDelay, !.maxDelay = newMaxDelay,
                     !.gracePeriod = newGracePeriod,
                     !._timelockTransactions =
                        [h \in DOMAIN @ |-> [@[h] EXCEPT !.eta = @ + newMinDelay]]])

\* variant of updateDelays that accepts a grace period of zero
updateDelays_noGraceCheck(st, sender, newMinDelay, newMaxDelay, newGracePeriod) ==
  IF ~hasRole(st, ADMIN_ROLE, sender) /\ ~hasRole(st, GOVERNANCE_ROLE, sender)
     /\ sender # Self
  THEN Revert(st, "NotAuthorized")
  ELSE IF newMinDelay = 0 THEN Revert(st, "ZeroDelay")
  ELSE IF newMaxDelay < newMinDelay THEN Revert(st, "InvalidParams")
  ELSE Ok([st EXCEPT !.minDelay = newMinDelay, !.maxDelay = newMaxDelay,
                     !.gracePeriod = newGracePeriod])

updateDelays(st, sender, newMinDelay, newMaxDelay, newGracePeriod) ==
  IF ~hasRole(st, ADMIN_ROLE, sender) /\ ~hasRole(st, GOVERNANCE_ROLE, sender)
     /\ sender # Self
  THEN Revert(st, "NotAuthorized")
  ELSE IF newMinDelay = 0 THEN Revert(st, "ZeroDelay")
  ELSE IF newMaxDelay < newMinDelay THEN Revert(st, "InvalidParams")
  ELSE IF newGracePeriod = 0 THEN Revert(st, "InvalidParams")
  ELSE Ok([st EXCEPT !.minDelay = newMinDelay, !.maxDelay = newMaxDelay,
                     !.gracePeriod = newGracePeriod])

\* variant of updateThreatLevelDelays that does not compare high with medium
updateThreatLevelDelays_noHighCheck(st, sender, newLowDelay, newMediumDelay, newHighDelay, newCriticalDelay) ==
  IF ~hasRole(st, ADMIN_ROLE, sender) /\ ~hasRole(st, GOVERNANCE_ROLE, sender)
     /\ sender # Self
  THEN Revert(st, "NotAuthorized")
  ELSE IF newLowDelay < st.minDelay THEN Revert(st, "DelayTooShort")
  ELSE IF newMediumDelay < newLowDelay THEN Revert(st, "DelayHierarchyViolation")
  ELSE IF newCriticalDelay < newHighDelay THEN Revert(st, "DelayHierarchyViolation")
  ELSE IF newCriticalDelay > st.maxDelay THEN Revert(st, "DelayTooLong")
  ELSE Ok([st EXCEPT !.lowThreatDelay = newLowDelay, !.mediumThreatDelay = newMediumDelay,
                     !.highThreatDelay = newHighDelay, !.criticalThreatDelay = newCriticalDelay])

\* variant of updateThreatLevelDelays that does not compare critical with maxDelay
updateThreatLevelDelays_noMaxCheck(st, sender, newLowDelay, newMediumDelay, newHighDelay, newCriticalDelay) ==
  IF ~hasRole(st, ADMIN_ROLE, sender) /\ ~hasRole(st, GOVERNANCE_ROLE, sender)
     /\ sender # Self
  THEN Revert(st, "NotAuthorized")
  ELSE IF newLowDelay < st.minDelay THEN Revert(st, "DelayTooShort")
  ELSE IF newMediumDelay < newLowDelay THEN Revert(st, "DelayHierarchyViolation")
  ELSE IF newHighDelay < newMediumDelay THEN Revert(st, "DelayHierarchyViolation")
  ELSE IF newCriticalDelay < newHighDelay THEN Revert(st, "DelayHierarchyViolation")
  ELSE Ok([st EXCEPT !.lowThreatDelay = newLowDelay, !.mediumThreatDelay = newMediumDelay,
                     !.highThreatDelay = newHighDelay, !.criticalThreatDelay = newCriticalDelay])

updateThreatLevelDelays(st, sender, newLowDelay, newMediumDelay, newHighDelay, newCriticalDelay) ==
  IF ~hasRole(st, ADMIN_ROLE, sender) /\ ~hasRole(st, GOVERNANCE_ROLE, sender)
     /\ sender # Self
  THEN Revert(st, "NotAuthorized")
  ELSE IF newLowDelay < st.minDelay THEN Revert(st, "DelayTooShort")
  ELSE IF newMediumDelay < newLowDelay THEN Revert(st, "DelayHierarchyViolation")
  ELSE IF newHighDelay < newMediumDelay THEN Revert(st, "DelayHierarchyViolation")
  ELSE IF newCriticalDelay < newHighDelay THEN Revert(st, "DelayHierarchyViolation")
  ELSE IF newCriticalDelay > st.maxDelay THEN Revert(st, "DelayTooLong")
  ELSE Ok([st EXCEPT !.lowThreatDelay = newLowDelay, !.mediumThreatDelay = newMediumDelay,
                     !.highThreatDelay = newHighDelay, !.criticalThreatDelay = newCriticalDelay])

setFunctionThreatLevel(st, sender, selector, level) ==
  IF ~hasRole(st, ADMIN_ROLE, sender) THEN Revert(st, "AccessControl")
  ELSE Ok([st EXCEPT !.functionThreatLevels[selector] = level])

setAddressThreatLevel(st, sender, target, level) ==
  IF ~hasRole(st, ADMIN_ROLE, sender) THEN Revert(st, "AccessControl")
  ELSE Ok([st EXCEPT !.addressThreatLevels[target] = level])

RECURSIVE SetFunctionLevels(_, _, _)
SetFunctionLevels(st, selectors, levels) ==
  IF selectors = <<>> THEN st
  ELSE SetFunctionLevels([st EXCEPT !.functionThreatLevels[Head(selectors)] = Head(levels)],
                         Tail(selectors), Tail(levels))

setBatchFunctionThreatLevels(st, sender, selectors, levels) ==
  IF ~hasRole(st, ADMIN_ROLE, sender) THEN Revert(st, "AccessControl")
  ELSE IF Len(selectors) # Len(levels) THEN Revert(st, "InvalidParams")
  ELSE Ok(SetFunctionLevels(st, selectors, levels))

RECURSIVE SetAddressLevels(_, _, _)
SetAddressLevels(st, targets, levels) ==
  IF targets = <<>> THEN st
  ELSE SetAddressLevels([st EXCEPT !.addressThreatLevels[Head(targets)] = Head(levels)],
                        Tail(targets), Tail(levels))

setBatchAddressThreatLevels(st, sender, targets, levels) ==
  IF ~hasRole(st, ADMIN_ROLE, sender) THEN Revert(st, "AccessControl")
  ELSE IF Len(targets) # Len(levels) THEN Revert(st, "InvalidParams")
  ELSE Ok(SetAddressLevels(st, targets, levels))

setJustToken(st, sender, tokenAddress) ==
  IF ~hasRole(st, ADMIN_ROLE, sender) THEN Revert(st, "AccessControl")
  ELSE IF tokenAddress = Zero THEN Revert(st, "ZeroAddress")
  ELSE Ok([st EXCEPT !.justToken = tokenAddress])

setPaused(st, sender, isPaused) ==
  IF ~hasRole(st, GUARDIAN_ROLE, sender) THEN Revert(st, "AccessControl")
  ELSE IF isPaused
       THEN (IF st._paused THEN Revert(st, "Paused") ELSE Ok([st EXCEPT !._paused = TRUE]))
       ELSE (IF ~st._paused THEN Revert(st, "NotPaused") ELSE Ok([st EXCEPT !._paused = FALSE]))


updateExecutorTokenThreshold(st, sender, newThreshold) ==
  IF ~hasRole(st, ADMIN_ROLE, sender) /\ ~hasRole(st, GOVERNANCE_ROLE, sender)
     /\ sender # Self
  THEN Revert(st, "NotAuthorized")
  ELSE Ok([st EXCEPT !.minExecutorTokenThreshold = newThreshold])

\* ------------------------------------------------------------------ roles
\* variant of revokeContractRole without the protection of essential roles
revokeContractRole_noEssentialCheck(st, sender, role, account) ==
  IF ~hasRole(st, ADMIN_ROLE, sender) THEN Revert(st, "AccessControl")
  ELSE IF account = Zero THEN Revert(st, "ZeroAddress")
  ELSE IF role = ADMIN_ROLE
          /\ ~(getRoleMemberCount(st, ADMIN_ROLE) > 1 \/ account # sender)
       THEN Revert(st, "NotAuthorized")
  ELSE IF role = GOVERNANCE_ROLE /\ getRoleMemberCount(st, GOVERNANCE_ROLE) <= 1
       THEN Revert(st, "NotAuthorized")
  ELSE IF ~hasRole(st, DEFAULT_ADMIN_ROLE, sender) THEN Revert(st, "AccessControl")
  ELSE Ok([st EXCEPT !._roles[role] = @ \ {account}])

revokeContractRole(st, sender, role, account) ==
  IF ~hasRole(st, ADMIN_ROLE, sender) THEN Revert(st, "AccessControl")
  ELSE IF account = Zero THEN Revert(st, "ZeroAddress")
  ELSE IF role = ADMIN_ROLE
          /\ ~(getRoleMemberCount(st, ADMIN_ROLE) > 1 \/ account # sender)
       THEN Revert(st, "NotAuthorized")
  ELSE IF role = GOVERNANCE_ROLE /\ getRoleMemberCount(st, GOVERNANCE_ROLE) <= 1
       THEN Revert(st, "NotAuthorized")
  ELSE IF role \in {PROPOSER_ROLE, EXECUTOR_ROLE} /\ getRoleMemberCount(st, role) <= 1
       THEN Revert(st, "NotAuthorized")
  \* revokeRole(role, account) is onlyRole(getRoleAdmin(role)), the default admin role
  ELSE IF ~hasRole(st, DEFAULT_ADMIN_ROLE, sender) THEN Revert(st, "AccessControl")
  ELSE Ok([st EXCEPT !._roles[role] = @ \ {account}])

grantContractRole(st, sender, role, account) ==
  IF ~hasRole(st, ADMIN_ROLE, sender) THEN Revert(st, "AccessControl")
  ELSE IF account = Zero THEN Revert(st, "ZeroAddress")
  \* grantRole(role, account) is onlyRole(getRoleAdmin(role)), the default admin role
  ELSE IF ~hasRole(st, DEFAULT_ADMIN_ROLE, sender) THEN Revert(st, "AccessControl")
  ELSE Ok([st EXCEPT !._roles[role] = @ \cup {account}])

\* ---------------------------------------------------------------- lifecycle
_markTransactionAsFailed(st, txHash) ==
  [st EXCEPT !._failedTransactions = @ \cup {txHash}]

\* variant of executeTransaction_before whose eta boundary is exclusive
executeTransaction_before_exclusiveEta(st, orc, sender, txHash, t) ==
  IF st._paused THEN Revert(st, "Paused")
  ELSE IF st._status = ENTERED THEN Revert(st, "ReentrantCall")
  ELSE IF txHash \notin st.queuedTransactions THEN Revert(st, "TxNotQueued")
  ELSE LET transaction == Txn(st, txHash) IN
       IF transaction.executed THEN Revert(st, "TxAlreadyExecuted")
       ELSE IF transaction.canceled THEN Revert(st, "AlreadyCanceled")
       ELSE IF t <= transaction.eta THEN Revert(st, "TxNotReady")
       ELSE IF t > transaction.eta + st.gracePeriod THEN Revert(st, "TxExpired")
       ELSE IF balanceOfReverts(st, orc) THEN Revert(st, "TokenCallReverted")
       ELSE IF ~isAuthorizedByTokens(st, orc, sender) /\ ~hasRole(st, EXECUTOR_ROLE, sender)
            THEN Revert(st, "NotAuthorized")
       ELSE [s |-> [SetTxn(st, txHash, [transaction EXCEPT !.executed = TRUE])
                      EXCEPT !._status = ENTERED],
             r |-> "call"]

\* variant of executeTransaction_before that sets executed before it authorizes
\* the caller
executeTransaction_before_flagFirst(st, orc, sender, txHash, t) ==
  IF st._paused THEN Revert(st, "Paused")
  ELSE IF st._status = ENTERED THEN Revert(st, "ReentrantCall")
  ELSE IF txHash \notin st.queuedTransactions THEN Revert(st, "TxNotQueued")
  ELSE LET transaction == Txn(st, txHash)
           flagged == SetTxn(st, txHash, [transaction EXCEPT !.executed = TRUE])
       IN
       IF transaction.executed THEN Revert(st, "TxAlreadyExecuted")
       ELSE IF transaction.canceled THEN Revert(st, "AlreadyCanceled")
       ELSE IF t < transaction.eta THEN Revert(st, "TxNotReady")
       ELSE IF t > transaction.eta + st.gracePeriod THEN Revert(st, "TxExpired")
       ELSE IF balanceOfReverts(st, orc) THEN Revert(st, "TokenCallReverted")
       ELSE IF ~isAuthorizedByTokens(st, orc, sender) /\ ~hasRole(st, EXECUTOR_ROLE, sender)
            THEN Revert(flagged, "NotAuthorized")
       ELSE [s |-> [flagged EXCEPT !._status = ENTERED], r |-> "call"]

\* variant of executeTransaction_before that leaves executed for after the call
executeTransaction_before_flagAfterCall(st, orc, sender, txHash, t) ==
  IF st._paused THEN Revert(st, "Paused")
  ELSE IF st._status = ENTERED THEN Revert(st, "ReentrantCall")
  ELSE IF txHash \notin st.queuedTransactions THEN Revert(st, "TxNotQueued")
  ELSE LET transaction == Txn(st, txHash) IN
       IF transaction.executed THEN Revert(st, "TxAlreadyExecuted")
       ELSE IF transaction.canceled THEN Revert(st, "AlreadyCanceled")
       ELSE IF t < transaction.eta THEN Revert(st, "TxNotReady")
       ELSE IF t > transaction.eta + st.gracePeriod THEN Revert(st, "TxExpired")
       ELSE IF balanceOfReverts(st, orc) THEN Revert(st, "TokenCallReverted")
       ELSE IF ~isAuthorizedByTokens(st, orc, sender) /\ ~hasRole(st, EXECUTOR_ROLE, sender)
            THEN Revert(st, "NotAuthorized")
       ELSE [s |-> [st EXCEPT !._status = ENTERED], r |-> "call"]

\* variant of executeTransaction_before whose window closes one unit early
executeTransaction_before_exclusiveExpiry(st, orc, sender, txHash, t) ==
  IF st._paused THEN Revert(st, "Paused")
  ELSE IF st._status = ENTERED THEN Revert(st, "ReentrantCall")
  ELSE IF txHash \notin st.queuedTransactions THEN Revert(st, "TxNotQueued")
  ELSE LET transaction == Txn(st, txHash) IN
       IF transaction.executed THEN Revert(st, "TxAlreadyExecuted")
       ELSE IF transaction.canceled THEN Revert(st, "AlreadyCanceled")
       ELSE IF t < transaction.eta THEN Revert(st, "TxNotReady")
       ELSE IF t >= transaction.eta + st.gracePeriod THEN Revert(st, "TxExpired")
       ELSE IF balanceOfReverts(st, orc) THEN Revert(st, "TokenCallReverted")
       ELSE IF ~isAuthorizedByTokens(st, orc, sender) /\ ~hasRole(st, EXECUTOR_ROLE, sender)
            THEN Revert(st, "NotAuthorized")
       ELSE [s |-> [SetTxn(st, txHash, [transaction EXCEPT !.executed = TRUE])
                      EXCEPT !._status = ENTERED],
             r |-> "call"]

\* executeTransaction up to the external call: "call" asks for target.call
executeTransaction_before(st, orc, sender, txHash, t) ==
  IF st._paused THEN Revert(st, "Paused")
  ELSE IF st._status = ENTERED THEN Revert(st, "ReentrantCall")
  ELSE IF txHash \notin st.queuedTransactions THEN Revert(st, "TxNotQueued")
  ELSE LET transaction == Txn(st, txHash) IN
       IF transaction.executed THEN Revert(st, "TxAlreadyExecuted")
       ELSE IF transaction.canceled THEN Revert(st, "AlreadyCanceled")
       ELSE IF t < transaction.eta THEN Revert(st, "TxNotReady")
       ELSE IF t > transaction.eta + st.gracePeriod THEN Revert(st, "TxExpired")
       ELSE IF balanceOfReverts(st, orc) THEN Revert(st, "TokenCallReverted")
       ELSE IF ~isAuthorizedByTokens(st, orc, sender) /\ ~hasRole(st, EXECUTOR_ROLE, sender)
            THEN Revert(st, "NotAuthorized")
       ELSE [s |-> [SetTxn(st, txHash, [transaction EXCEPT !.executed = TRUE])
                      EXCEPT !._status = ENTERED],
             r |-> "call"]

\* executeTransaction from the return of the external call; cur is the storage
\* the call left, entry the storage at function entry
executeTransaction_after(entry, cur, txHash, success) ==
  IF ~success
  THEN LET marked == _markTransactionAsFailed(cur, txHash)
       IN Revert(entry, "CallFailed")
  ELSE Ok([cur EXCEPT !._status = NOT_ENTERED])

\* variant of executeExpiredTransaction_before that opens one time unit early
executeExpiredTransaction_before_early(st, sender, txHash, t) ==
  IF st._paused THEN Revert(st, "Paused")
  ELSE IF st._status = ENTERED THEN Revert(st, "ReentrantCall")
  ELSE IF txHash \notin st.queuedTransactions THEN Revert(st, "TxNotQueued")
  ELSE LET transaction == Txn(st, txHash) IN
       IF transaction.executed THEN Revert(st, "TxAlreadyExecuted")
       ELSE IF transaction.canceled THEN Revert(st, "AlreadyCanceled")
       ELSE IF t < transaction.eta + st.gracePeriod THEN Revert(st, "TransactionNotExpired")
       ELSE IF ~hasRole(st, ADMIN_ROLE, sender) /\ ~hasRole(st, GOVERNANCE_ROLE, sender)
            THEN Revert(st, "NotAuthorized")
       ELSE [s |-> [SetTxn(st, txHash, [transaction EXCEPT !.executed = TRUE])
                      EXCEPT !._status = ENTERED],
             r |-> "call"]

\* variant of executeExpiredTransaction_before that looks at neither the
\* queued flag nor the canceled flag
executeExpiredTransaction_before_noCancelCheck(st, sender, txHash, t) ==
  IF st._paused THEN Revert(st, "Paused")
  ELSE IF st._status = ENTERED THEN Revert(st, "ReentrantCall")
  ELSE IF txHash \notin DOMAIN st._timelockTransactions THEN Revert(st, "TxNotQueued")
  ELSE LET transaction == Txn(st, txHash) IN
       IF transaction.executed THEN Revert(st, "TxAlreadyExecuted")
       ELSE IF t <= transaction.eta + st.gracePeriod THEN Revert(st, "TransactionNotExpired")
       ELSE IF ~hasRole(st, ADMIN_ROLE, sender) /\ ~hasRole(st, GOVERNANCE_ROLE, sender)
            THEN Revert(st, "NotAuthorized")
       ELSE [s |-> [SetTxn(st, txHash, [transaction EXCEPT !.executed = TRUE])
                      EXCEPT !._status = ENTERED],
             r |-> "call"]

executeExpiredTransaction_before(st, sender, txHash, t) ==
  IF st._paused THEN Revert(st, "Paused")
  ELSE IF st._status = ENTERED THEN Revert(st, "ReentrantCall")
  ELSE IF txHash \notin st.queuedTransactions THEN Revert(st, "TxNotQueued")
  ELSE LET transaction == Txn(st, txHash) IN
       IF transaction.executed THEN Revert(st, "TxAlreadyExecuted")
       ELSE IF transaction.canceled THEN Revert(st, "AlreadyCanceled")
       ELSE IF t <= transaction.eta + st.gracePeriod THEN Revert(st, "TransactionNotExpired")
       ELSE IF ~hasRole(st, ADMIN_ROLE, sender) /\ ~hasRole(st, GOVERNANCE_ROLE, sender)
            THEN Revert(st, "NotAuthorized")
       ELSE [s |-> [SetTxn(st, txHash, [transaction EXCEPT !.executed = TRUE])
                      EXCEPT !._status = ENTERED],
             r |-> "call"]

\* variant of executeExpiredTransaction_after that reopens a failed action
executeExpiredTransaction_after_reopen(entry, cur, txHash, success) ==
  IF ~success
  THEN Ok([[SetTxn(cur, txHash, [Txn(cur, txHash) EXCEPT !.executed = FALSE])
              EXCEPT !._failedTransactions = @ \cup {txHash}]
             EXCEPT !._status = NOT_ENTERED])
  ELSE Ok([cur EXCEPT !._status = NOT_ENTERED])

\* variant of executeExpiredTransaction_after that reverts on a failed call
executeExpiredTransaction_after_revertOnFailure(entry, cur, txHash, success) ==
  IF ~success
  THEN Revert(entry, "CallFailed")
  ELSE Ok([cur EXCEPT !._status = NOT_ENTERED])

executeExpiredTransaction_after(entry, cur, txHash, success) ==
  IF ~success
  THEN Ok([[cur EXCEPT !._failedTransactions = @ \cup {txHash}]
             EXCEPT !._status = NOT_ENTERED])
  ELSE Ok([cur EXCEPT !._status = NOT_ENTERED])

\* variant of markTransactionAsFailed that does not look at the executed flag
markTransactionAsFailed_anyState(st, sender, txHash) ==
  IF ~hasRole(st, ADMIN_ROLE, sender) /\ ~hasRole(st, GOVERNANCE_ROLE, sender)
  THEN Revert(st, "NotAuthorized")
  ELSE IF txHash \notin st.queuedTransactions THEN Revert(st, "TxNotQueued")
  ELSE LET transaction == Txn(st, txHash) IN
       IF transaction.canceled THEN Revert(st, "AlreadyCanceled")
       ELSE Ok(_markTransactionAsFailed(st, txHash))

\* variant of markTransactionAsFailed that also reopens the action for execution
markTransactionAsFailed_reopen(st, sender, txHash) ==
  IF ~hasRole(st, ADMIN_ROLE, sender) /\ ~hasRole(st, GOVERNANCE_ROLE, sender)
  THEN Revert(st, "NotAuthorized")
  ELSE IF txHash \notin st.queuedTransactions THEN Revert(st, "TxNotQueued")
  ELSE LET transaction == Txn(st, txHash) IN
       IF ~transaction.executed THEN Revert(st, "TransactionNotExecutedYet")
       ELSE IF transaction.canceled THEN Revert(st, "AlreadyCanceled")
       ELSE Ok(_markTransactionAsFailed(
                 SetTxn(st, txHash, [transaction EXCEPT !.executed = FALSE]), txHash))

markTransactionAsFailed(st, sender, txHash) ==
  IF ~hasRole(st, ADMIN_ROLE, sender) /\ ~hasRole(st, GOVERNANCE_ROLE, sender)
  THEN Revert(st, "NotAuthorized")
  ELSE IF txHash \notin st.queuedTransactions THEN Revert(st, "TxNotQueued")
  ELSE LET transaction == Txn(st, txHash) IN
       IF ~transaction.executed THEN Revert(st, "TransactionNotExecutedYet")
       ELSE IF transaction.canceled THEN Revert(st, "AlreadyCanceled")
       ELSE Ok(_markTransactionAsFailed(st, txHash))

\* variant of executeFailedTransaction_before without whenNotPaused
executeFailedTransaction_before_whilePaused(st, sender, txHash, t) ==
  IF st._status = ENTERED THEN Revert(st, "ReentrantCall")
  ELSE IF txHash \notin st.queuedTransactions THEN Revert(st, "TxNotQueued")
  ELSE LET transaction == Txn(st, txHash) IN
       IF ~transaction.executed THEN Revert(st, "TransactionNotPreviouslyFailed")
       ELSE IF transaction.canceled THEN Revert(st, "AlreadyCanceled")
       ELSE IF txHash \notin st._failedTransactions
            THEN Revert(st, "TransactionNotPreviouslyFailed")
       ELSE IF t > transaction.eta + st.gracePeriod THEN Revert(st, "TxExpired")
       ELSE IF ~(hasRole(st, ADMIN_ROLE, sender) \/ hasRole(st, GOVERNANCE_ROLE, sender))
            THEN Revert(st, "NotAuthorized")
       ELSE [s |-> [st EXCEPT !._failedTransactions = @ \ {txHash}, !._status = ENTERED],
             r |-> "call"]

executeFailedTransaction_before(st, sender, txHash, t) ==
  IF st._paused THEN Revert(st, "Paused")
  ELSE IF st._status = ENTERED THEN Revert(st, "ReentrantCall")
  ELSE IF txHash \notin st.queuedTransactions THEN Revert(st, "TxNotQueued")
  ELSE LET transaction == Txn(st, txHash) IN
       IF ~transaction.executed THEN Revert(st, "TransactionNotPreviouslyFailed")
       ELSE IF transaction.canceled THEN Revert(st, "AlreadyCanceled")
       ELSE IF txHash \notin st._failedTransactions
            THEN Revert(st, "TransactionNotPreviouslyFailed")
       ELSE IF t > transaction.eta + st.gracePeriod THEN Revert(st, "TxExpired")
       ELSE IF ~(hasRole(st, ADMIN_ROLE, sender) \/ hasRole(st, GOVERNANCE_ROLE, sender))
            THEN Revert(st, "NotAuthorized")
       ELSE [s |-> [st EXCEPT !._failedTransactions = @ \ {txHash}, !._status = ENTERED],
             r |-> "call"]

executeFailedTransaction_after(entry, cur, txHash, success) ==
  IF ~success
  THEN LET marked == _markTransactionAsFailed(cur, txHash)
       IN Revert(entry, "CallFailed")
  ELSE Ok([cur EXCEPT !._status = NOT_ENTERED])

\* variant of cancelTransaction that also admits a caller by its token balance
cancelTransaction_tokenPath(st, sender, txHash) ==
  IF st._paused THEN Revert(st, "Paused")
  ELSE IF txHash \notin st.queuedTransactions THEN Revert(st, "TxNotQueued")
  ELSE LET transaction == Txn(st, txHash) IN
       IF transaction.executed THEN Revert(st, "TxAlreadyExecuted")
       ELSE IF transaction.canceled THEN Revert(st, "AlreadyCanceled")
       ELSE IF ~hasRole(st, GUARDIAN_ROLE, sender) /\ ~hasRole(st, CANCELLER_ROLE, sender)
               /\ ~hasRole(st, PROPOSER_ROLE, sender)
               /\ ~isAuthorizedByTokens(st, oracle, sender)
            THEN Revert(st, "NotAuthorized")
       ELSE Ok([SetTxn(st, txHash, [transaction EXCEPT !.canceled = TRUE])
                  EXCEPT !.queuedTransactions = @ \ {txHash}])

\* variant of cancelTransaction that does not look at the executed flag
cancelTransaction_afterExecution(st, sender, txHash) ==
  IF st._paused THEN Revert(st, "Paused")
  ELSE IF txHash \notin st.queuedTransactions THEN Revert(st, "TxNotQueued")
  ELSE LET transaction == Txn(st, txHash) IN
       IF transaction.canceled THEN Revert(st, "AlreadyCanceled")
       ELSE IF ~hasRole(st, GUARDIAN_ROLE, sender) /\ ~hasRole(st, CANCELLER_ROLE, sender)
               /\ ~hasRole(st, PROPOSER_ROLE, sender)
            THEN Revert(st, "NotAuthorized")
       ELSE Ok([SetTxn(st, txHash, [transaction EXCEPT !.canceled = TRUE])
                  EXCEPT !.queuedTransactions = @ \ {txHash}])

\* variant of cancelTransaction that leaves the queued flag set
cancelTransaction_keepQueued(st, sender, txHash) ==
  IF st._paused THEN Revert(st, "Paused")
  ELSE IF txHash \notin st.queuedTransactions THEN Revert(st, "TxNotQueued")
  ELSE LET transaction == Txn(st, txHash) IN
       IF transaction.executed THEN Revert(st, "TxAlreadyExecuted")
       ELSE IF transaction.canceled THEN Revert(st, "AlreadyCanceled")
       ELSE IF ~hasRole(st, GUARDIAN_ROLE, sender) /\ ~hasRole(st, CANCELLER_ROLE, sender)
               /\ ~hasRole(st, PROPOSER_ROLE, sender)
            THEN Revert(st, "NotAuthorized")
       ELSE Ok(SetTxn(st, txHash, [transaction EXCEPT !.canceled = TRUE]))

cancelTransaction(st, sender, txHash) ==
  IF st._paused THEN Revert(st, "Paused")
  ELSE IF txHash \notin st.queuedTransactions THEN Revert(st, "TxNotQueued")
  ELSE LET transaction == Txn(st, txHash) IN
       IF transaction.executed THEN Revert(st, "TxAlreadyExecuted")
       ELSE IF transaction.canceled THEN Revert(st, "AlreadyCanceled")
       ELSE IF ~hasRole(st, GUARDIAN_ROLE, sender) /\ ~hasRole(st, CANCELLER_ROLE, sender)
               /\ ~hasRole(st, PROPOSER_ROLE, sender)
            THEN Revert(st, "NotAuthorized")
       ELSE Ok([SetTxn(st, txHash, [transaction EXCEPT !.canceled = TRUE])
                  EXCEPT !.queuedTransactions = @ \ {txHash}])

\* ------------------------------------------------------- the external call
\* target.call{value: value}(data) when the target is the timelock itself: the
\* payload's function runs with msg.sender = the timelock.  No function of the
\* contract is payable and an unknown selector has no fallback.
SelfCall(st, value, data) ==
  IF value > 0 THEN [success |-> FALSE, s |-> st]
  ELSE IF Len(data) = 7 /\ Selector(data) = SelUpdateDelays
       THEN LET res == updateDelays(st, Self, data[5], data[6], data[7])
            IN [success |-> res.r = "ok", s |-> res.s]
  ELSE IF Len(data) = 8 /\ Selector(data) = SelUpdateThreatLevelDelays
       THEN LET res == updateThreatLevelDelays(st, Self, data[5], data[6], data[7], data[8])
            IN [success |-> res.r = "ok", s |-> res.s]
  ELSE [success |-> FALSE, s |-> st]

\* the rest of the function that made the call
After(op, entry, cur, txHash, success) ==
  IF op = "execute" THEN executeTransaction_after(entry, cur, txHash, success)
  ELSE IF op = "executeExpired" THEN executeExpiredTransaction_after(entry, cur, txHash, success)
  ELSE executeFailedTransaction_after(entry, cur, txHash, success)


\* ================================================================== inputs
InitialMinDelays == {1}

DataA == SelTransfer
DataB == <<5>>
DataSelf == EncodeUpdateDelays(1, 30, 2)

Requests ==
  { [target |-> "tgt", value |-> 0, data |-> DataA],
    [target |-> "tgt", value |-> 1, data |-> DataA],
    [target |-> "tgt", value |-> 0, data |-> DataB],
    [target |-> Self,  value |-> 0, data |-> DataA],
    [target |-> Self,  value |-> 0, data |-> DataSelf],
    [target |-> Zero,  value |-> 0, data |-> DataA] }

DelayInputs == {0, 1}
DelayProbes == {0, 1, 2, InitialMaxDelay + 1}
BoundsInputs == { <<0, 30, 14>>, <<2, 1, 14>>, <<1, 30, 0>>, <<1, 30, 1>> }
TierInputs == { <<1, 1, 1, 1>>, <<0, 1, 1, 1>>, <<1, 2, 1, 1>>, <<1, 1, 1, 31>> }

NoHash == <<>>
UnknownHash == Hash("tgt", 0, <<>>, 0)
HashInputs == (DOMAIN s._timelockTransactions) \cup {UnknownHash}

\* msg.sender: an externally owned account, or, while an external call is in
\* progress, the contract that was called
Senders == IF stack = <<>> THEN EOAs ELSE {stack[Len(stack)].target}

\* ==================================================================== Init
InitialStorage(initialMinDelay, proposers, executors, admin) ==
  [ minDelay |-> initialMinDelay,
    maxDelay |-> InitialMaxDelay,
    gracePeriod |-> InitialGracePeriod,
    minExecutorTokenThreshold |-> InitialTokenThreshold,
    lowThreatDelay |-> InitialLowThreatDelay,
    mediumThreatDelay |-> InitialMediumThreatDelay,
    highThreatDelay |-> InitialHighThreatDelay,
    criticalThreatDelay |-> InitialCriticalThreatDelay,
    functionThreatLevels |->
      [sel \in Selectors |->
         IF sel \in {SelUpdateDelays, SelUpdateThreatLevelDelays} THEN "MEDIUM"
         ELSE IF sel = SelUpgradeTo THEN "CRITICAL" ELSE "LOW"],
    addressThreatLevels |-> [a \in Accounts \cup {Zero} |-> "LOW"],
    justToken |-> Zero,
    _timelockTransactions |-> <<>>,
    queuedTransactions |-> {},
    _failedTransactions |-> {},
    _roles |-> [role \in Roles |->
                  IF role = PROPOSER_ROLE THEN proposers
                  ELSE IF role = EXECUTOR_ROLE THEN executors
                  ELSE {admin}],
    _paused |-> FALSE,
    _status |-> NOT_ENTERED ]

Init ==
  /\ \E m \in InitialMinDelays :
       s = InitialStorage(m, {"prop", "tgt"}, {"exec", "tgt"}, Admin)
  /\ now = 0
  /\ stack = <<>>
  /\ last = [op |-> "initialize", sender |-> Admin, txHash |-> NoHash, r |-> "ok",
             success |-> TRUE]
  /\ oracle = [throws |-> FALSE, code |-> TRUE,
               balanceOf |-> [a \in Accounts |-> IF a = "user" THEN InitialTokenThreshold ELSE 0]]
  /\ wasCanceled = {}
  /\ called = {}

\* ================================================================= actions
\* success: what target.call returned, for a function that made the call
Record(op, sender, txHash, res, success) ==
  /\ s' = res.s
  /\ last' = [op |-> op, sender |-> sender, txHash |-> txHash, r |-> res.r,
              success |-> success]

\* a call that reverts before any effect leaves no trace but the storage its
\* function returns; a completed call is recorded in last
Plain(op, sender, txHash, res) ==
  /\ IF Reverted(res) THEN s' = res.s /\ UNCHANGED last
     ELSE Record(op, sender, txHash, res, TRUE)
  /\ UNCHANGED <<now, stack, oracle, wasCanceled, called>>

\* a function that reaches target.call: the call to the timelock itself runs
\* to completion here; any other target gets a frame and may re-enter
Invoke(op, sender, txHash, res) ==
  IF res.r # "call" THEN Plain(op, sender, txHash, res)
  ELSE LET tx == Txn(s, txHash) IN
       IF tx.target = Self
       THEN LET c == SelfCall(res.s, tx.value, tx.data)
            IN /\ Record(op, sender, txHash,
                         After(op, s, IF c.success THEN c.s ELSE res.s, txHash, c.success),
                         c.success)
               /\ called' = IF c.success THEN called \cup {txHash} ELSE called
               /\ UNCHANGED <<now, stack, oracle, wasCanceled>>
       ELSE /\ Record(op, sender, txHash, res, TRUE)
            /\ stack' = Append(stack, [op |-> op, txHash |-> txHash, sender |-> sender,
                                       target |-> tx.target, entry |-> s, mid |-> res.s,
                                       hist |-> wasCanceled])
            /\ UNCHANGED <<now, oracle, wasCanceled, called>>

Fits(res) == Cardinality(DOMAIN res.s._timelockTransactions) <= MaxTx

QueueTransaction(requests) ==
  \E sender \in Senders, q \in requests, delay \in DelayInputs :
    LET res == queueTransaction(s, sender, q.target, q.value, q.data, delay, now)
    IN /\ Fits(res)
       /\ Plain("queue", sender, Hash(q.target, q.value, q.data, now + delay), res)

QueueTransactionWithThreatLevel(requests) ==
  \E sender \in Senders, q \in requests :
    LET delay == getDelayForThreatLevel(s, getThreatLevel(s, q.target, q.data))
        res == queueTransactionWithThreatLevel(s, oracle, sender, q.target, q.value, q.data, now)
    IN /\ Fits(res)
       /\ Plain("queueAuto", sender, Hash(q.target, q.value, q.data, now + delay), res)

ExecuteTransaction ==
  \E sender \in Senders, txHash \in HashInputs :
    Invoke("execute", sender, txHash,
           executeTransaction_before(s, oracle, sender, txHash, now))

ExecuteExpiredTransaction ==
  \E sender \in Senders, txHash \in HashInputs :
    Invoke("executeExpired", sender, txHash,
           executeExpiredTransaction_before(s, sender, txHash, now))

ExecuteFailedTransaction ==
  \E sender \in Senders, txHash \in HashInputs :
    Invoke("executeFailed", sender, txHash,
           executeFailedTransaction_before(s, sender, txHash, now))

\* the external call returns (success) or reverts (~success): what the target
\* did while it ran is kept or undone, and the calling function finishes
Return ==
  /\ stack # <<>>
  /\ \E success \in BOOLEAN :
       LET f == stack[Len(stack)]
           res == After(f.op, f.entry, IF success THEN s ELSE f.mid, f.txHash, success)
       IN /\ Record(f.op, f.sender, f.txHash, res, success)
          /\ stack' = SubSeq(stack, 1, Len(stack) - 1)
          /\ wasCanceled' = IF success THEN wasCanceled ELSE f.hist
          /\ called' = IF success THEN called \cup {f.txHash} ELSE called
          /\ UNCHANGED <<now, oracle>>

MarkTransactionAsFailed ==
  \E sender \in Senders, txHash \in HashInputs :
    Plain("markFailed", sender, txHash, markTransactionAsFailed(s, sender, txHash))

CancelTransaction ==
  \E sender \in Senders, txHash \in HashInputs :
    LET res == cancelTransaction(s, sender, txHash)
    IN /\ IF Reverted(res) THEN s' = res.s /\ UNCHANGED last
          ELSE Record("cancel", sender, txHash, res, TRUE)
       /\ wasCanceled' = IF res.r = "ok" THEN wasCanceled \cup {txHash} ELSE wasCanceled
       /\ UNCHANGED <<now, stack, oracle, called>>

UpdateDelays ==
  \E sender \in Senders, b \in BoundsInputs :
    Plain("updateDelays", sender, NoHash, updateDelays(s, sender, b[1], b[2], b[3]))

UpdateThreatLevelDelays ==
  \E sender \in Senders, d \in TierInputs :
    Plain("updateThreatLevelDelays", sender, NoHash,
          updateThreatLevelDelays(s, sender, d[1], d[2], d[3], d[4]))

SetPaused ==
  \E sender \in Senders, isPaused \in BOOLEAN :
    Plain("setPaused", sender, NoHash, setPaused(s, sender, isPaused))

\* the admin hands a role to a contract that is also a target of queued actions
GrantInputs == { <<GOVERNANCE_ROLE, "tgt">> }

GrantContractRole ==
  \E sender \in Senders, g \in GrantInputs :
    Plain("grantRole", sender, NoHash, grantContractRole(s, sender, g[1], g[2]))

Tick ==
  /\ stack = <<>>
  /\ now < MaxTime
  /\ now' = now + 1
  /\ last' = [op |-> "tick", sender |-> Zero, txHash |-> NoHash, r |-> "ok",
              success |-> TRUE]
  /\ UNCHANGED <<s, stack, oracle, wasCanceled, called>>

LifecycleRequests ==
  { [target |-> "tgt", value |-> 0, data |-> DataA],
    [target |-> Zero,  value |-> 0, data |-> DataA] }

Next ==
  \/ QueueTransaction(LifecycleRequests)
  \/ QueueTransactionWithThreatLevel(LifecycleRequests)
  \/ ExecuteTransaction
  \/ ExecuteExpiredTransaction
  \/ ExecuteFailedTransaction
  \/ Return
  \/ MarkTransactionAsFailed
  \/ CancelTransaction
  \/ UpdateDelays
  \/ GrantContractRole
  \/ SetPaused
  \/ Tick

Spec == Init /\ [][Next]_vars


\* ------------------------------------------------ the delay configuration alone
\* initialize with each non-zero minimum delay, then updateDelays and
\* updateThreatLevelDelays with every combination of small values
ConfigMinDelays == {1, 2}
CfgValues == 0 .. MaxCfg

ConfigInit ==
  /\ \E m \in ConfigMinDelays :
       s = InitialStorage(m, {"prop", "tgt"}, {"exec", "tgt"}, Admin)
  /\ now = 0
  /\ stack = <<>>
  /\ last = [op |-> "initialize", sender |-> Admin, txHash |-> NoHash, r |-> "ok",
             success |-> TRUE]
  /\ oracle = [throws |-> FALSE, code |-> TRUE,
               balanceOf |-> [a \in Accounts |-> IF a = "user" THEN InitialTokenThreshold ELSE 0]]
  /\ wasCanceled = {}
  /\ called = {}

ConfigUpdateDelays ==
  \E sender \in Senders, a \in CfgValues, b \in CfgValues, c \in CfgValues :
    Plain("updateDelays", sender, NoHash, updateDelays(s, sender, a, b, c))

ConfigUpdateThreatLevelDelays ==
  \E sender \in Senders, a \in CfgValues, b \in CfgValues, c \in CfgValues, d \in CfgValues :
    Plain("updateThreatLevelDelays", sender, NoHash,
          updateThreatLevelDelays(s, sender, a, b, c, d))

ConfigNext ==
  \/ ConfigUpdateDelays
  \/ ConfigUpdateThreatLevelDelays

ConfigSpec == ConfigInit /\ [][ConfigNext]_vars


\* ---------------------------------------------------------- the roles alone
\* grantContractRole and revokeContractRole of the four guarded roles
GuardedRoles == {ADMIN_ROLE, GOVERNANCE_ROLE, PROPOSER_ROLE, EXECUTOR_ROLE}
RoleAccounts == {"admin", "user", "prop"}

RoleGrantContractRole ==
  \E sender \in Senders, role \in GuardedRoles, account \in RoleAccounts :
    Plain("grantRole", sender, NoHash, grantContractRole(s, sender, role, account))

RoleRevokeContractRole ==
  \E sender \in Senders, role \in GuardedRoles, account \in RoleAccounts :
    Plain("revokeRole", sender, NoHash, revokeContractRole(s, sender, role, account))

RoleNext ==
  \/ RoleGrantContractRole
  \/ RoleRevokeContractRole

RoleSpec == Init /\ [][RoleNext]_vars


\* ------------------------------------------------- authorization by balance
\* the token is one of: answering with a balance of 0, 1 or 2 threshold units
\* for "user", reverting inside balanceOf, or an address without code
Balances(b) == [a \in Accounts |-> IF a = "user" THEN b ELSE 0]
OracleInputs ==
  { [throws |-> FALSE, code |-> TRUE, balanceOf |-> Balances(b)] :
      b \in 0 .. (InitialTokenThreshold + 1) }
    \cup { [throws |-> TRUE, code |-> TRUE, balanceOf |-> Balances(InitialTokenThreshold + 1)],
           [throws |-> FALSE, code |-> FALSE, balanceOf |-> Balances(InitialTokenThreshold + 1)] }
ThresholdInputs == {InitialTokenThreshold, InitialTokenThreshold + 1}

AuthInit ==
  /\ \E m \in InitialMinDelays : s = InitialStorage(m, {"prop"}, {"exec"}, Admin)
  /\ now = 0
  /\ stack = <<>>
  /\ last = [op |-> "initialize", sender |-> Admin, txHash |-> NoHash, r |-> "ok",
             success |-> TRUE]
  /\ oracle \in OracleInputs
  /\ wasCanceled = {}
  /\ called = {}

SetJustToken ==
  \E sender \in Senders, tokenAddress \in {Zero, Token} :
    Plain("setJustToken", sender, NoHash, setJustToken(s, sender, tokenAddress))

UpdateExecutorTokenThreshold ==
  \E sender \in Senders, newThreshold \in ThresholdInputs :
    Plain("updateExecutorTokenThreshold", sender, NoHash,
          updateExecutorTokenThreshold(s, sender, newThreshold))

AuthNext ==
  \/ SetJustToken
  \/ UpdateExecutorTokenThreshold
  \/ QueueTransaction(LifecycleRequests)
  \/ QueueTransactionWithThreatLevel(LifecycleRequests)
  \/ ExecuteTransaction
  \/ Return
  \/ CancelTransaction
  \/ Tick

AuthSpec == AuthInit /\ [][AuthNext]_vars


\* ------------------------------------------- delays, tiers and self-calls
\* actions of two tiers, on a target and on the timelock itself, queued with
\* explicit and with tier delays while the global bounds change
DataTiers == EncodeUpdateThreatLevelDelays(1, 1, 2, 2)
PolicyRequests ==
  { [target |-> "tgt", value |-> 0, data |-> DataA],
    [target |-> Self,  value |-> 0, data |-> DataSelf],
    [target |-> Self,  value |-> 0, data |-> DataTiers] }
PolicyBounds == { <<1, 30, 1>>, <<1, 30, 2>>, <<2, 30, 14>>, <<1, 2, 14>>, <<0, 30, 14>> }

PolicyUpdateDelays ==
  \E sender \in Senders, b \in PolicyBounds :
    Plain("updateDelays", sender, NoHash, updateDelays(s, sender, b[1], b[2], b[3]))

QueueDelayUpdate ==
  \E sender \in Senders, b \in PolicyBounds :
    LET delay == getDelayForThreatLevel(s,
                   getThreatLevel(s, Self, EncodeUpdateDelays(b[1], b[2], b[3])))
        res == queueDelayUpdate(s, oracle, sender, b[1], b[2], b[3], now)
    IN /\ Fits(res)
       /\ Plain("queueAuto", sender,
                Hash(Self, 0, EncodeUpdateDelays(b[1], b[2], b[3]), now + delay), res)

QueueThreatLevelDelaysUpdate ==
  \E sender \in Senders :
    LET delay == getDelayForThreatLevel(s, getThreatLevel(s, Self, DataTiers))
        res == queueThreatLevelDelaysUpdate(s, oracle, sender, 1, 1, 2, 2, now)
    IN /\ Fits(res)
       /\ Plain("queueAuto", sender, Hash(Self, 0, DataTiers, now + delay), res)

PolicyNext ==
  \/ QueueTransaction(PolicyRequests)
  \/ QueueTransactionWithThreatLevel(PolicyRequests)
  \/ QueueDelayUpdate
  \/ QueueThreatLevelDelaysUpdate
  \/ ExecuteTransaction
  \/ Return
  \/ PolicyUpdateDelays
  \/ Tick

PolicySpec == Init /\ [][PolicyNext]_vars


\* ------------------------------------------------------ the threat overrides
\* the four setters of address and selector levels, with every level
ClassifyTargets == {"tgt", Self}
ClassifySelectors == {SelTransfer, SelUpgradeTo}
ClassifyPayloads ==
  { <<>>, <<1, 1, 1>>, SelTransfer, SelTransfer \o <<7>>, SelUpgradeTo, <<9, 9, 9, 9>>,
    DataSelf }

SetFunctionThreatLevel ==
  \E sender \in Senders, selector \in ClassifySelectors, level \in ThreatLevel :
    Plain("setFunctionThreatLevel", sender, NoHash,
          setFunctionThreatLevel(s, sender, selector, level))

SetAddressThreatLevel ==
  \E sender \in Senders, target \in ClassifyTargets, level \in ThreatLevel :
    Plain("setAddressThreatLevel", sender, NoHash,
          setAddressThreatLevel(s, sender, target, level))

SetBatchFunctionThreatLevels ==
  \E sender \in Senders, levels \in {<<"HIGH">>, <<"LOW", "MEDIUM">>} :
    Plain("setBatchFunctionThreatLevels", sender, NoHash,
          setBatchFunctionThreatLevels(s, sender, <<SelTransfer, SelUpgradeTo>>, levels))

SetBatchAddressThreatLevels ==
  \E sender \in Senders, levels \in {<<"HIGH">>, <<"LOW", "CRITICAL">>} :
    Plain("setBatchAddressThreatLevels", sender, NoHash,
          setBatchAddressThreatLevels(s, sender, <<"tgt", Self>>, levels))

ClassifyNext ==
  \/ SetFunctionThreatLevel
  \/ SetAddressThreatLevel
  \/ SetBatchFunctionThreatLevels
  \/ SetBatchAddressThreatLevels

ClassifySpec == Init /\ [][ClassifyNext]_vars


\* ------------------------------------------------------- progress of actions
\* a fixed configuration with a grace period of one day, the pause switch off:
\* actions are queued, executed in or after their window and canceled
LiveStorage ==
  updateDelays(InitialStorage(1, {"prop", "tgt"}, {"exec", "tgt"}, Admin), Admin, 1, 30, 1).s

LiveInit ==
  /\ s = LiveStorage
  /\ now = 0
  /\ stack = <<>>
  /\ last = [op |-> "updateDelays", sender |-> Admin, txHash |-> NoHash, r |-> "ok",
             success |-> TRUE]
  /\ oracle = [throws |-> FALSE, code |-> TRUE,
               balanceOf |-> [a \in Accounts |-> IF a = "user" THEN InitialTokenThreshold ELSE 0]]
  /\ wasCanceled = {}
  /\ called = {}

LiveRequests == { [target |-> "tgt", value |-> 0, data |-> DataA] }

\* the clock is bounded: an action is queued only when its window closes
\* before the bound
LiveQueueTransaction ==
  \E sender \in Senders, q \in LiveRequests, delay \in DelayInputs :
    LET res == queueTransaction(s, sender, q.target, q.value, q.data, delay, now)
    IN /\ Fits(res)
       /\ now + delay + s.gracePeriod < MaxTime
       /\ Plain("queue", sender, Hash(q.target, q.value, q.data, now + delay), res)

LiveNext ==
  \/ LiveQueueTransaction
  \/ ExecuteTransaction
  \/ ExecuteExpiredTransaction
  \/ Return
  \/ CancelTransaction
  \/ MarkTransactionAsFailed
  \/ Tick

\* block.timestamp advances between transactions, a target call returns, and
\* execute and executeExpired are attempted as long as they are accepted
LiveSpec ==
  /\ LiveInit
  /\ [][LiveNext]_vars
  /\ SF_vars(Tick)
  /\ WF_vars(Return)
  /\ WF_vars(ExecuteTransaction)
  /\ WF_vars(ExecuteExpiredTransaction)

LiveHashes == { Hash(q.target, q.value, q.data, eta) : q \in LiveRequests, eta \in 0 .. MaxTime }


\* -------------------------------------------------- the holders of the roles
\* initialize with no proposer or a single one and a single executor, then
\* grantContractRole and revokeContractRole of the four guarded roles
HolderProposers == { {}, {"prop"} }

HolderInit ==
  /\ \E proposers \in HolderProposers :
       s = InitialStorage(1, proposers, {"user"}, Admin)
  /\ now = 0
  /\ stack = <<>>
  /\ last = [op |-> "initialize", sender |-> Admin, txHash |-> NoHash, r |-> "ok",
             success |-> TRUE]
  /\ oracle = [throws |-> FALSE, code |-> TRUE,
               balanceOf |-> [a \in Accounts |-> IF a = "user" THEN InitialTokenThreshold ELSE 0]]
  /\ wasCanceled = {}
  /\ called = {}

HolderSpec == HolderInit /\ [][RoleNext]_vars


\* ================================================================== claims
Stored == DOMAIN s._timelockTransactions

\* the Queued state of the lifecycle: stored, not executed, not canceled
IsQueued(st, h) ==
  /\ h \in st.queuedTransactions
  /\ ~Txn(st, h).executed
  /\ ~Txn(st, h).canceled

\* the pause switch is off and no guarded function is running
Idle == ~s._paused /\ s._status = NOT_ENTERED

CanExecute(sender) ==
  hasRole(s, EXECUTOR_ROLE, sender) \/ isAuthorizedByTokens(s, oracle, sender)
AdminOrGovernance(sender) ==
  hasRole(s, ADMIN_ROLE, sender) \/ hasRole(s, GOVERNANCE_ROLE, sender)

\* clock readings around the window of an action, and the current one
ProbeTimes(h) ==
  LET eta == Txn(s, h).eta IN
  {now, eta, eta + s.gracePeriod, eta + s.gracePeriod + 1, eta + s.gracePeriod + 2}
    \cup (0 .. (eta - 1))

\* C1: for a Queued action and any caller, execute before eta is rejected with
\* the storage unchanged, as TxNotReady whenever the pause and reentrancy
\* guards let the call through; at exactly eta an execute-authorized caller is
\* accepted (the target call is made); no target call of an execute is ever in
\* progress, or has just returned, at a time before the action's eta.
C1_ExecuteNotBeforeEta ==
  /\ \A h \in Stored, sender \in Accounts : \A t \in ProbeTimes(h) :
       IsQueued(s, h) =>
         LET res == executeTransaction_before(s, oracle, sender, h, t)
             eta == Txn(s, h).eta
         IN /\ t < eta => /\ Reverted(res)
                          /\ res.s = s
                          /\ Idle => res.r = "TxNotReady"
            /\ (t = eta /\ Idle /\ CanExecute(sender)) =>
                 /\ res.r = "call"
                 /\ Txn(res.s, h).executed
  /\ \A i \in 1 .. Len(stack) :
       stack[i].op = "execute" => now >= Txn(stack[i].entry, stack[i].txHash).eta
  /\ last.op = "execute" => now >= Txn(s, last.txHash).eta

\* an execute accepted at exactly eta, its target call in progress
C1_Witness ==
  /\ stack # <<>>
  /\ stack[1].op = "execute"
  /\ now = Txn(s, stack[1].txHash).eta

\* C2: for a Queued action (guards letting the call through), execute at any
\* time after eta + gracePeriod is rejected as TxExpired for every caller while
\* executeExpired by an Admin or Governance caller at that time is accepted; at
\* exactly eta + gracePeriod execute by an authorized caller is still accepted
\* and executeExpired is rejected as TransactionNotExpired.
C2_ExpiryBoundary ==
  \A h \in Stored, sender \in Accounts : \A t \in ProbeTimes(h) :
    (IsQueued(s, h) /\ Idle) =>
      LET exec == executeTransaction_before(s, oracle, sender, h, t)
          expd == executeExpiredTransaction_before(s, sender, h, t)
          end == Txn(s, h).eta + s.gracePeriod
      IN /\ t > end => /\ exec.r = "TxExpired"
                       /\ exec.s = s
                       /\ AdminOrGovernance(sender) => expd.r = "call"
         /\ t = end => /\ CanExecute(sender) => exec.r = "call"
                       /\ expd.r = "TransactionNotExpired"
                       /\ expd.s = s

\* executeExpired accepted after the window closed, its target call in progress
C2_Witness ==
  /\ stack # <<>>
  /\ stack[1].op = "executeExpired"
  /\ now > Txn(s, stack[1].txHash).eta + s.gracePeriod
  /\ \A sender \in Accounts :
       executeTransaction_before(stack[1].entry, oracle, sender, stack[1].txHash, now).r
         = "TxExpired"


\* C3: when an in-window execute by an authorized caller has surfaced the
\* failure of the target call (CallFailed), the action is stored with
\* executed = true and failed = true.
C3_FailureRecorded ==
  (last.op = "execute" /\ last.r = "CallFailed") =>
    /\ Txn(s, last.txHash).executed
    /\ last.txHash \in s._failedTransactions

\* C4: after an execute at eta whose target call failed, executeFailed by an
\* Admin or Governance caller at a later time within eta + gracePeriod is
\* accepted, and with the target call now succeeding it returns normally and
\* leaves failed = false, executed = true.
C4_RetryAfterFailedExecute ==
  (last.op = "execute" /\ last.r = "CallFailed" /\ stack = <<>>
     /\ now = Txn(s, last.txHash).eta) =>
    \A sender \in Accounts :
      \A t \in (now + 1) .. (Txn(s, last.txHash).eta + s.gracePeriod) :
        AdminOrGovernance(sender) =>
          LET before == executeFailedTransaction_before(s, sender, last.txHash, t)
              after == executeFailedTransaction_after(s, before.s, last.txHash, TRUE)
          IN /\ before.r = "call"
             /\ after.r = "ok"
             /\ last.txHash \notin after.s._failedTransactions
             /\ Txn(after.s, last.txHash).executed

\* C5: once cancelTransaction has accepted a hash, the target call of that
\* hash is never made and the hash never has executed = true.
C5_CanceledNeverExecuted ==
  \A h \in wasCanceled :
    /\ ~Txn(s, h).executed
    /\ \A i \in 1 .. Len(stack) : stack[i].txHash # h

\* C6: cancel of a hash that is unqueued, executed (failed or not) or canceled
\* is rejected with the storage unchanged, for every caller; cancel of a Queued
\* action by a Guardian, Canceller or Proposer with the engine unpaused is
\* accepted and sets canceled = true, whatever the clock reads.
C6_CancelOnlyWhileQueued ==
  \A h \in Stored \cup {UnknownHash}, sender \in Accounts :
    LET res == cancelTransaction(s, sender, h) IN
    /\ (h \notin s.queuedTransactions \/ Txn(s, h).executed \/ Txn(s, h).canceled) =>
         /\ Reverted(res)
         /\ res.s = s
    /\ (IsQueued(s, h) /\ ~s._paused
          /\ (hasRole(s, GUARDIAN_ROLE, sender) \/ hasRole(s, CANCELLER_ROLE, sender)
                \/ hasRole(s, PROPOSER_ROLE, sender))) =>
         /\ res.r = "ok"
         /\ Txn(res.s, h).canceled
         /\ ~IsQueued(res.s, h)

\* a cancel accepted after the action's window had closed, next to an action
\* that was executed and which cancel now rejects
C6_Witness ==
  /\ last.op = "cancel"
  /\ last.r = "ok"
  /\ Txn(s, last.txHash).canceled
  /\ now > Txn(s, last.txHash).eta + s.gracePeriod
  /\ \E h \in Stored : Txn(s, h).executed

\* C7: a queue or queueAuto request whose (target, value, data, eta) equals
\* that of a Queued entry is rejected with the storage unchanged, as
\* TxAlreadyQueued when the call passes the pause, authorization and delay
\* checks; a request that passes them and whose four fields differ in at least
\* one from every entry with the queued flag is accepted under an id of its own,
\* and every Queued entry stays Queued and unchanged next to it.  The clock
\* readings are the current one and the next.
C7_AlreadyQueued ==
  \A q \in Requests, sender \in Accounts, t \in {now, now + 1} :
    LET Same(st, h, eta) ==
          /\ Txn(st, h).target = q.target
          /\ Txn(st, h).value = q.value
          /\ Txn(st, h).data = q.data
          /\ Txn(st, h).eta = eta
        Case(res, eta, passes) ==
          /\ (\E h \in Stored : IsQueued(s, h) /\ Same(s, h, eta)) =>
               /\ Reverted(res)
               /\ res.s = s
               /\ passes => res.r = "TxAlreadyQueued"
          /\ (passes /\ ~\E h \in s.queuedTransactions : Same(s, h, eta)) =>
               /\ res.r = "ok"
               /\ \E n \in DOMAIN res.s._timelockTransactions :
                    /\ IsQueued(res.s, n)
                    /\ Same(res.s, n, eta)
                    /\ ~IsQueued(s, n)
               /\ \A h \in Stored :
                    IsQueued(s, h) => IsQueued(res.s, h) /\ Txn(res.s, h) = Txn(s, h)
        InBounds(delay) ==
          q.target # Zero /\ delay >= s.minDelay /\ delay <= s.maxDelay /\ ~s._paused
        auto == getDelayForThreatLevel(s, getThreatLevel(s, q.target, q.data))
    IN /\ \A delay \in DelayProbes :
            Case(queueTransaction(s, sender, q.target, q.value, q.data, delay, t),
                 t + delay,
                 InBounds(delay) /\ hasRole(s, PROPOSER_ROLE, sender))
       /\ Case(queueTransactionWithThreatLevel(s, oracle, sender, q.target, q.value,
                                               q.data, t),
               t + auto,
               InBounds(auto) /\ (hasRole(s, PROPOSER_ROLE, sender)
                                    \/ isAuthorizedByTokens(s, oracle, sender)))

\* two queueAuto requests with the same target, value and data, made at clock
\* readings one unit apart, are Queued together
C7_Witness ==
  /\ last.op = "queueAuto"
  /\ last.r = "ok"
  /\ \E h \in Stored :
       /\ h # last.txHash
       /\ IsQueued(s, h) /\ IsQueued(s, last.txHash)
       /\ Txn(s, h).target = Txn(s, last.txHash).target
       /\ Txn(s, h).value = Txn(s, last.txHash).value
       /\ Txn(s, h).data = Txn(s, last.txHash).data
       /\ Txn(s, h).eta + 1 = Txn(s, last.txHash).eta
       /\ queueTransactionWithThreatLevel(s, oracle, last.sender, Txn(s, h).target,
                                          Txn(s, h).value, Txn(s, h).data, now).r
            = "TxAlreadyQueued"

\* C8: while the target call of an execute, executeExpired or executeFailed of
\* a hash is in progress, every execute, executeExpired, executeFailed and
\* cancel of that hash, and every queue or queueAuto request that hashes to it,
\* is rejected with the storage unchanged, whoever calls and whatever token
\* balance the caller holds; no second target call is entered meanwhile.
C8_NoReentryOnSameHash ==
  /\ Len(stack) <= 1
  /\ \A i \in 1 .. Len(stack) :
       LET h == stack[i].txHash
           tx == Txn(s, h)
           rich == [oracle EXCEPT !.balanceOf = [a \in Accounts |-> s.minExecutorTokenThreshold]]
       IN \A sender \in Accounts, orc \in {oracle, rich},
             st \in {s, [s EXCEPT !.justToken = Token]} :
            LET Rejected(res) == Reverted(res) /\ res.s = st IN
            /\ Rejected(executeTransaction_before(st, orc, sender, h, now))
            /\ Rejected(executeExpiredTransaction_before(st, sender, h, now))
            /\ Rejected(executeFailedTransaction_before(st, sender, h, now))
            /\ Rejected(cancelTransaction(st, sender, h))
            /\ \A delay \in DelayProbes :
                 Hash(tx.target, tx.value, tx.data, now + delay) = h =>
                   Rejected(queueTransaction(st, sender, tx.target, tx.value, tx.data,
                                             delay, now))
            /\ Hash(tx.target, tx.value, tx.data,
                    now + getDelayForThreatLevel(st, getThreatLevel(st, tx.target, tx.data))) = h =>
                 Rejected(queueTransactionWithThreatLevel(st, orc, sender, tx.target,
                                                          tx.value, tx.data, now))

\* the target, called by an execute at eta, has re-entered the timelock and
\* canceled another action, while a queue request for the hash being executed
\* is one the timelock rejects
C8_Witness ==
  /\ stack # <<>>
  /\ stack[1].op = "execute"
  /\ last.op = "cancel"
  /\ last.r = "ok"
  /\ last.sender = stack[1].target
  /\ last.txHash # stack[1].txHash
  /\ now = Txn(s, stack[1].txHash).eta
  /\ Reverted(queueTransaction(s, last.sender, Txn(s, stack[1].txHash).target,
                               Txn(s, stack[1].txHash).value,
                               Txn(s, stack[1].txHash).data, 0, now))

\* C9: an accepted executeExpired returns normally whether its target call
\* succeeded or failed, and then the action has executed = true and is failed
\* exactly when the target call failed.
C9_ExpiredOutcomeRecorded ==
  (last.op = "executeExpired" /\ last.r # "call") =>
    /\ last.r = "ok"
    /\ Txn(s, last.txHash).executed
    /\ (last.txHash \in s._failedTransactions) <=> ~last.success

\* C10: every operation that is rejected returns the storage it was called
\* with: transactions, queued and failed flags, delays, threat levels, roles,
\* pause flag, token address and threshold; for every caller and every input.
C10_RejectionLeavesStorage ==
  LET Kept(res) == Reverted(res) => res.s = s
      levels == <<"HIGH">>
  IN \A sender \in Accounts :
       /\ \A q \in Requests :
            /\ \A delay \in DelayProbes :
                 Kept(queueTransaction(s, sender, q.target, q.value, q.data, delay, now))
            /\ Kept(queueTransactionWithThreatLevel(s, oracle, sender, q.target, q.value,
                                                    q.data, now))
       /\ \A h \in HashInputs :
            /\ Kept(executeTransaction_before(s, oracle, sender, h, now))
            /\ Kept(executeExpiredTransaction_before(s, sender, h, now))
            /\ Kept(executeFailedTransaction_before(s, sender, h, now))
            /\ Kept(markTransactionAsFailed(s, sender, h))
            /\ Kept(cancelTransaction(s, sender, h))
       /\ \A b \in BoundsInputs : Kept(updateDelays(s, sender, b[1], b[2], b[3]))
       /\ \A d \in TierInputs :
            Kept(updateThreatLevelDelays(s, sender, d[1], d[2], d[3], d[4]))
       /\ Kept(setFunctionThreatLevel(s, sender, SelTransfer, "HIGH"))
       /\ Kept(setAddressThreatLevel(s, sender, "tgt", "HIGH"))
       /\ \A sels \in {<<SelTransfer>>, <<SelTransfer, SelUpgradeTo>>} :
            Kept(setBatchFunctionThreatLevels(s, sender, sels, levels))
       /\ \A tgts \in {<<"tgt">>, <<"tgt", Self>>} :
            Kept(setBatchAddressThreatLevels(s, sender, tgts, levels))
       /\ \A role \in Roles, account \in Accounts \cup {Zero} :
            /\ Kept(grantContractRole(s, sender, role, account))
            /\ Kept(revokeContractRole(s, sender, role, account))
       /\ \A isPaused \in BOOLEAN : Kept(setPaused(s, sender, isPaused))
       /\ \A token \in {Zero, Token} : Kept(setJustToken(s, sender, token))
       /\ Kept(updateExecutorTokenThreshold(s, sender, 2))

\* a state that holds an executed action and a Queued one before its eta, in
\* which state, timing, duplicate, authorization, validation and role
\* rejections all occur
C10_Witness ==
  \E e \in Stored, h \in Stored :
    /\ Txn(s, e).executed
    /\ IsQueued(s, h)
    /\ now < Txn(s, h).eta
    /\ Idle
    /\ cancelTransaction(s, "prop", e).r = "TxAlreadyExecuted"
    /\ executeTransaction_before(s, oracle, "exec", h, now).r = "TxNotReady"
    /\ executeFailedTransaction_before(s, Admin, e, now).r = "TransactionNotPreviouslyFailed"
    /\ markTransactionAsFailed(s, Admin, h).r = "TransactionNotExecutedYet"
    /\ queueTransaction(s, "prop", Txn(s, h).target, Txn(s, h).value, Txn(s, h).data,
                        Txn(s, h).eta - now, now).r = "TxAlreadyQueued"
    /\ queueTransaction(s, "user", "tgt", 0, DataA, 1, now).r = "NotAuthorized"
    /\ updateDelays(s, Admin, 0, 30, 14).r = "ZeroDelay"
    /\ revokeContractRole(s, Admin, GOVERNANCE_ROLE, Admin).r = "NotAuthorized"
    /\ setBatchAddressThreatLevels(s, Admin, <<"tgt", Self>>, <<"HIGH">>).r = "InvalidParams"

\* the chain the delay configuration is to satisfy
DelayChain(st) ==
  /\ st.minDelay <= st.lowThreatDelay
  /\ st.lowThreatDelay <= st.mediumThreatDelay
  /\ st.mediumThreatDelay <= st.highThreatDelay
  /\ st.highThreatDelay <= st.criticalThreatDelay
  /\ st.criticalThreatDelay <= st.maxDelay

\* C11: in every state reached from initialize by accepted updateDelays and
\* updateThreatLevelDelays calls, minDelay <= low <= medium <= high <= critical
\* <= maxDelay and gracePeriod > 0.
C11_DelayConfigOrdered ==
  DelayChain(s) /\ s.gracePeriod > 0

\* C12: in every state, whatever accepted and rejected configuration calls
\* came before, getDelayForThreatLevel is monotone in the order LOW, MEDIUM,
\* HIGH, CRITICAL.
C12_DelayForMonotone ==
  /\ getDelayForThreatLevel(s, "LOW") <= getDelayForThreatLevel(s, "MEDIUM")
  /\ getDelayForThreatLevel(s, "MEDIUM") <= getDelayForThreatLevel(s, "HIGH")
  /\ getDelayForThreatLevel(s, "HIGH") <= getDelayForThreatLevel(s, "CRITICAL")

\* tier delays replaced by an accepted updateThreatLevelDelays, low below
\* medium below critical, in a state where a request with high below medium is rejected
C12_Witness ==
  /\ last.op = "updateThreatLevelDelays"
  /\ last.r = "ok"
  /\ getDelayForThreatLevel(s, "LOW") < getDelayForThreatLevel(s, "MEDIUM")
  /\ getDelayForThreatLevel(s, "MEDIUM") < getDelayForThreatLevel(s, "CRITICAL")
  /\ getDelayForThreatLevel(s, "CRITICAL") # InitialCriticalThreatDelay
  /\ updateThreatLevelDelays(s, Admin, s.minDelay, s.minDelay + 1, s.minDelay, s.maxDelay).r
       = "DelayHierarchyViolation"

\* C13: updateThreatLevelDelays(low, medium, high, critical) is rejected, and
\* the four tier delays (the whole storage) stay as they were, whenever a link
\* of minDelay <= low <= medium <= high <= critical <= maxDelay is broken; when
\* every link holds and the caller is Admin, Governance or the timelock itself,
\* the four delays are replaced together and nothing else changes.
C13_TierUpdateAllOrNothing ==
  \A sender \in Accounts :
    \A a \in CfgValues \cup {InitialMaxDelay + 1}, b \in CfgValues, c \in CfgValues,
       d \in CfgValues \cup {InitialMaxDelay + 1} :
      LET res == updateThreatLevelDelays(s, sender, a, b, c, d)
          chain == s.minDelay <= a /\ a <= b /\ b <= c /\ c <= d /\ d <= s.maxDelay
      IN /\ ~chain => Reverted(res) /\ res.s = s
         /\ (chain /\ (AdminOrGovernance(sender) \/ sender = Self)) =>
              /\ res.r = "ok"
              /\ res.s = [s EXCEPT !.lowThreatDelay = a, !.mediumThreatDelay = b,
                                   !.highThreatDelay = c, !.criticalThreatDelay = d]

\* all four tier delays were replaced together by one accepted call, under
\* bounds narrowed so that requests break the chain at either end as well
C13_Witness ==
  /\ last.op = "updateThreatLevelDelays"
  /\ last.r = "ok"
  /\ s.minDelay = 2
  /\ s.maxDelay = MaxCfg
  /\ s.lowThreatDelay = 2
  /\ s.mediumThreatDelay = 2
  /\ s.highThreatDelay = MaxCfg
  /\ s.criticalThreatDelay = MaxCfg
  /\ updateThreatLevelDelays(s, Admin, 1, 2, 2, 2).r = "DelayTooShort"
  /\ updateThreatLevelDelays(s, Admin, 2, 2, 2, InitialMaxDelay + 1).r = "DelayTooLong"

\* C14: for each of the Admin, Governance, Proposer and Executor roles,
\* revokeContractRole(role, account) by a holder of the Admin role is rejected
\* when account is the only holder of the role, and when the role has two or
\* more holders it is accepted, account no longer holds the role and every
\* other holder (and every other role) is as before.
C14_RevokeGuards ==
  \A sender \in Accounts, role \in GuardedRoles, account \in Accounts :
    hasRole(s, ADMIN_ROLE, sender) =>
      LET res == revokeContractRole(s, sender, role, account) IN
      /\ s._roles[role] = {account} => Reverted(res) /\ res.s = s
      /\ getRoleMemberCount(s, role) >= 2 =>
           /\ res.r = "ok"
           /\ res.s = [s EXCEPT !._roles[role] = @ \ {account}]

\* the storage a step starts from: for the step in which an external call
\* returns, the storage at the entry of the function that made the call (what
\* a reverting function falls back to); for every other step, the storage
Before == IF Len(stack') < Len(stack) THEN stack[Len(stack)].entry ELSE s

\* C15: executed is monotonic: a hash stored with executed = true is stored
\* with executed = true after every step, whatever the operation (a failed or
\* successful retry, markFailed, a cancel or queue attempt, a configuration
\* change); a function that reverts falls back to the storage at its entry.
C15_ExecutedMonotonic ==
  [][\A h \in DOMAIN Before._timelockTransactions :
       Txn(Before, h).executed => Txn(s', h).executed]_vars

\* an executed action whose retry has just failed and been rolled back
C15_Witness ==
  /\ last.op = "executeFailed"
  /\ last.r = "CallFailed"
  /\ stack = <<>>
  /\ Txn(s, last.txHash).executed
  /\ last.txHash \in s._failedTransactions

\* C16: canceled is terminal: a hash stored with canceled = true keeps its
\* whole entry (canceled true, executed false, target, value, data and eta)
\* after every step, is not marked failed, and is not Queued again.
C16_CanceledTerminal ==
  [][\A h \in DOMAIN Before._timelockTransactions :
       Txn(Before, h).canceled =>
         /\ Txn(s', h) = Txn(Before, h)
         /\ ~Txn(s', h).executed
         /\ h \notin s'._failedTransactions
         /\ ~IsQueued(s', h)]_vars

\* the token is set and balanceOf answers
Answering == s.justToken # Zero /\ oracle.code /\ ~oracle.throws

\* the action is Queued and the clock is within [eta, eta + gracePeriod]
InWindow(h) ==
  /\ IsQueued(s, h)
  /\ now >= Txn(s, h).eta
  /\ now <= Txn(s, h).eta + s.gracePeriod

\* C17: with the token answering, queueAuto (role Proposer) and in-window
\* execute (role Executor) are authorized exactly when the caller holds the
\* role or its balance is at least the threshold: a caller with neither is
\* rejected as NotAuthorized with the storage unchanged, a caller with either
\* (a sufficient balance and no role included) is accepted.
C17_AuthorizedByRoleOrBalance ==
  Answering =>
    \A sender \in Accounts :
      LET sufficient == oracle.balanceOf[sender] >= s.minExecutorTokenThreshold IN
      /\ \A q \in Requests :
           (q.target # Zero /\ ~s._paused) =>
             LET res == queueTransactionWithThreatLevel(s, oracle, sender, q.target,
                                                        q.value, q.data, now)
                 eta == now + getDelayForThreatLevel(s, getThreatLevel(s, q.target, q.data))
                 h == Hash(q.target, q.value, q.data, eta)
             IN IF hasRole(s, PROPOSER_ROLE, sender) \/ sufficient
                THEN /\ res.r \in {"ok", "TxAlreadyQueued"}
                     /\ h \notin s.queuedTransactions => res.r = "ok" /\ IsQueued(res.s, h)
                ELSE res.r = "NotAuthorized" /\ res.s = s
      /\ \A h \in Stored :
           (InWindow(h) /\ Idle) =>
             LET res == executeTransaction_before(s, oracle, sender, h, now)
             IN IF hasRole(s, EXECUTOR_ROLE, sender) \/ sufficient
                THEN res.r = "call" /\ Txn(res.s, h).executed
                ELSE res.r = "NotAuthorized" /\ res.s = s

\* "user", holding no role and exactly the threshold, has had an execute
\* accepted (its target call is in progress) and has a queueAuto accepted,
\* where the admin, with neither the role nor a balance, is rejected
C17_Witness ==
  /\ Answering
  /\ stack # <<>>
  /\ stack[1].op = "execute"
  /\ stack[1].sender = "user"
  /\ \A role \in Roles : ~hasRole(s, role, "user")
  /\ oracle.balanceOf["user"] = s.minExecutorTokenThreshold
  /\ queueTransactionWithThreatLevel(s, oracle, "user", "tgt", 1, DataA, now).r = "ok"
  /\ queueTransactionWithThreatLevel(s, oracle, Admin, "tgt", 1, DataA, now).r
       = "NotAuthorized"

\* the storage with the token set and the threshold at zero: every caller's
\* balance is sufficient
WithSufficientBalances == [s EXCEPT !.justToken = Token, !.minExecutorTokenThreshold = 0]
\* the storage with no token set: no caller's balance counts
WithoutToken == [s EXCEPT !.justToken = Zero]

\* C18: queue with an explicit delay, cancel, executeExpired, executeFailed,
\* grant and revoke have the same outcome (same result, same effect on the
\* storage) whether every caller's balance is sufficient or no balance counts,
\* and a caller holding none of the roles the operation asks for is rejected
\* with the storage unchanged.
C18_BalanceIrrelevant ==
  LET Strip(st) == [st EXCEPT !.justToken = Zero, !.minExecutorTokenThreshold = 0]
      Alike(a, b) == a.r = b.r /\ Strip(a.s) = Strip(b.s)
      Refused(res, st) == Reverted(res) /\ res.s = st
  IN \A sender \in Accounts, st \in {s, WithSufficientBalances, WithoutToken} :
       /\ \A q \in LifecycleRequests, delay \in DelayProbes :
            LET res == queueTransaction(st, sender, q.target, q.value, q.data, delay, now)
            IN /\ Alike(res, queueTransaction(s, sender, q.target, q.value, q.data, delay, now))
               /\ ~hasRole(s, PROPOSER_ROLE, sender) => Refused(res, st)
       /\ \A h \in HashInputs :
            /\ LET res == cancelTransaction(st, sender, h)
               IN /\ Alike(res, cancelTransaction(s, sender, h))
                  /\ (~hasRole(s, GUARDIAN_ROLE, sender) /\ ~hasRole(s, CANCELLER_ROLE, sender)
                        /\ ~hasRole(s, PROPOSER_ROLE, sender)) => Refused(res, st)
            /\ \A t \in ProbeTimes(h) :
                 LET expd == executeExpiredTransaction_before(st, sender, h, t)
                     retry == executeFailedTransaction_before(st, sender, h, t)
                 IN /\ Alike(expd, executeExpiredTransaction_before(s, sender, h, t))
                    /\ Alike(retry, executeFailedTransaction_before(s, sender, h, t))
                    /\ ~AdminOrGovernance(sender) => Refused(expd, st) /\ Refused(retry, st)
       /\ \A role \in GuardedRoles, account \in RoleAccounts :
            LET granted == grantContractRole(st, sender, role, account)
                revoked == revokeContractRole(st, sender, role, account)
            IN /\ Alike(granted, grantContractRole(s, sender, role, account))
               /\ Alike(revoked, revokeContractRole(s, sender, role, account))
               /\ ~hasRole(s, ADMIN_ROLE, sender) => Refused(granted, st) /\ Refused(revoked, st)

\* a retry by the admin is in progress next to a Queued action; "user", who
\* holds no role, is refused cancel, queue, executeExpired and grant although
\* its balance is sufficient, and would be admitted to execute by that balance
C18_Witness ==
  /\ stack # <<>>
  /\ stack[1].op = "executeFailed"
  /\ stack[1].sender = Admin
  /\ \A role \in Roles : ~hasRole(s, role, "user")
  /\ isAuthorizedByTokens(WithSufficientBalances, oracle, "user")
  /\ \E h \in Stored :
       /\ IsQueued(s, h)
       /\ cancelTransaction(WithSufficientBalances, "user", h).r = "NotAuthorized"
       /\ cancelTransaction(WithSufficientBalances, "prop", h).r = "ok"
       /\ queueTransaction(WithSufficientBalances, "user", "tgt", 1, DataA, 1, now).r
            = "NotAuthorized"
       /\ grantContractRole(WithSufficientBalances, "user", PROPOSER_ROLE, "user").r
            = "AccessControl"

\* C19: when the token is not set, or the balanceOf call fails, the caller's
\* balance counts as insufficient and the failure does not abort the
\* operation: queueAuto and in-window execute reject a caller without the role
\* as NotAuthorized, storage unchanged, and accept a caller that holds the role.
C19_OracleFailureIsInsufficient ==
  ~Answering =>
    \A sender \in Accounts :
      /\ \A q \in Requests :
           (q.target # Zero /\ ~s._paused) =>
             LET res == queueTransactionWithThreatLevel(s, oracle, sender, q.target,
                                                        q.value, q.data, now)
             IN IF hasRole(s, PROPOSER_ROLE, sender)
                THEN res.r \in {"ok", "TxAlreadyQueued"}
                ELSE res.r = "NotAuthorized" /\ res.s = s
      /\ \A h \in Stored :
           (InWindow(h) /\ Idle) =>
             LET res == executeTransaction_before(s, oracle, sender, h, now)
             IN IF hasRole(s, EXECUTOR_ROLE, sender)
                THEN res.r = "call"
                ELSE res.r = "NotAuthorized" /\ res.s = s

\* C20: while paused, queue, queueAuto, execute, executeExpired, executeFailed
\* and cancel are rejected as Paused, storage unchanged, for every caller,
\* request and clock reading; setPaused is rejected for a caller that is not a
\* Guardian and flips the switch for a Guardian; with the switch off and no
\* call in progress the operations are accepted under their preconditions.
C20_PauseBlocks ==
  /\ s._paused =>
       \A sender \in Accounts :
         LET Blocked(res) == res.r = "Paused" /\ res.s = s IN
         /\ \A q \in Requests :
              /\ \A delay \in DelayProbes :
                   Blocked(queueTransaction(s, sender, q.target, q.value, q.data, delay, now))
              /\ Blocked(queueTransactionWithThreatLevel(s, oracle, sender, q.target,
                                                         q.value, q.data, now))
         /\ \A h \in HashInputs :
              /\ Blocked(cancelTransaction(s, sender, h))
              /\ \A t \in ProbeTimes(h) :
                   /\ Blocked(executeTransaction_before(s, oracle, sender, h, t))
                   /\ Blocked(executeExpiredTransaction_before(s, sender, h, t))
                   /\ Blocked(executeFailedTransaction_before(s, sender, h, t))
  /\ \A sender \in Accounts, isPaused \in BOOLEAN :
       LET res == setPaused(s, sender, isPaused) IN
       IF hasRole(s, GUARDIAN_ROLE, sender)
       THEN isPaused # s._paused => res.r = "ok" /\ res.s = [s EXCEPT !._paused = isPaused]
       ELSE Reverted(res) /\ res.s = s
  /\ Idle =>
       /\ \A h \in Stored :
            /\ InWindow(h) =>
                 executeTransaction_before(s, oracle, "exec", h, now).r = "call"
            /\ IsQueued(s, h) => cancelTransaction(s, "prop", h).r = "ok"
            /\ (IsQueued(s, h) /\ now > Txn(s, h).eta + s.gracePeriod) =>
                 executeExpiredTransaction_before(s, Admin, h, now).r = "call"
            /\ (Txn(s, h).executed /\ h \in s._failedTransactions
                  /\ now <= Txn(s, h).eta + s.gracePeriod) =>
                 executeFailedTransaction_before(s, Admin, h, now).r = "call"
       /\ \A q \in Requests :
            (q.target # Zero /\ Hash(q.target, q.value, q.data, now + s.minDelay)
                                  \notin s.queuedTransactions) =>
              queueTransaction(s, "prop", q.target, q.value, q.data, s.minDelay, now).r = "ok"

\* the Guardian has just switched the pause off again; an in-window action and
\* a failed one are there for execute, cancel and the retry to be accepted
C20_Witness ==
  /\ last.op = "setPaused"
  /\ last.r = "ok"
  /\ ~s._paused
  /\ stack = <<>>
  /\ \E h \in Stored : InWindow(h)
  /\ \E h \in Stored : Txn(s, h).executed /\ h \in s._failedTransactions

\* the last step stored a new action, at the clock reading now
JustQueued == last.op \in {"queue", "queueAuto"} /\ last.r = "ok"

\* the delay of the tier the stored action is classified in
TierDelay(h) ==
  getDelayForThreatLevel(s, getThreatLevel(s, Txn(s, h).target, Txn(s, h).data))

\* C21: an action stored by queueAuto has eta = now + the delay of its tier,
\* and no action, stored by queue or queueAuto, has eta - now smaller than the
\* delay of the tier it is classified in when it is queued.
C21_TierFixesMinimumDelay ==
  JustQueued =>
    /\ last.op = "queueAuto" => Txn(s, last.txHash).eta = now + TierDelay(last.txHash)
    /\ Txn(s, last.txHash).eta - now >= TierDelay(last.txHash)

\* C22: an entry just stored by queue or queueAuto has a target other than
\* the zero address and eta = now + delay with minDelay <= delay <= maxDelay;
\* a request with the zero address as target, or with a delay (explicit, or
\* the delay of its tier for queueAuto) outside [minDelay, maxDelay], is
\* rejected with the storage unchanged, whoever calls.
C22_QueueValidatesTargetAndDelay ==
  /\ JustQueued =>
       /\ Txn(s, last.txHash).target # Zero
       /\ Txn(s, last.txHash).eta - now >= s.minDelay
       /\ Txn(s, last.txHash).eta - now <= s.maxDelay
  /\ \A sender \in Accounts, q \in Requests \cup PolicyRequests :
       /\ \A delay \in DelayProbes :
            (q.target = Zero \/ delay < s.minDelay \/ delay > s.maxDelay) =>
              LET res == queueTransaction(s, sender, q.target, q.value, q.data, delay, now)
              IN Reverted(res) /\ res.s = s
       /\ LET tier == getDelayForThreatLevel(s, getThreatLevel(s, q.target, q.data))
              res == queueTransactionWithThreatLevel(s, oracle, sender, q.target, q.value,
                                                     q.data, now)
          IN (q.target = Zero \/ tier < s.minDelay \/ tier > s.maxDelay) =>
               Reverted(res) /\ res.s = s

\* an action was just stored under bounds [2, 30], where the delay of the LOW
\* tier, 1, is below minDelay and a queueAuto of a LOW action is rejected
C22_Witness ==
  /\ JustQueued
  /\ s.minDelay = 2
  /\ s.lowThreatDelay < s.minDelay
  /\ queueTransactionWithThreatLevel(s, oracle, "prop", "tgt", 0, DataA, now).r
       = "DelayTooShort"
  /\ queueTransaction(s, "prop", Zero, 0, DataA, 2, now).r = "ZeroAddress"

\* C23: executeFailed reaches its target call only for a hash with executed =
\* true, failed = true, canceled = false, at a time <= eta + gracePeriod, for
\* an Admin or Governance caller, with the engine unpaused; when it has
\* returned, a failed call was surfaced (CallFailed) and the hash is failed, a
\* successful call returned normally and the hash is not failed; executed is
\* true in both cases.
C23_RetryOutcome ==
  /\ \A sender \in Accounts, h \in HashInputs : \A t \in ProbeTimes(h) :
       executeFailedTransaction_before(s, sender, h, t).r = "call" =>
         /\ Txn(s, h).executed
         /\ h \in s._failedTransactions
         /\ ~Txn(s, h).canceled
         /\ t <= Txn(s, h).eta + s.gracePeriod
         /\ AdminOrGovernance(sender)
         /\ ~s._paused
  /\ (last.op = "executeFailed" /\ last.r # "call") =>
       /\ Txn(s, last.txHash).executed
       /\ last.success => last.r = "ok" /\ last.txHash \notin s._failedTransactions
       /\ ~last.success => last.r = "CallFailed" /\ last.txHash \in s._failedTransactions

\* C24: when execute has returned normally, the hash has executed = true and
\* failed = false, whatever the target did while it was being called.
C24_NormalReturnNotFailed ==
  (last.op = "execute" /\ last.r = "ok") =>
    /\ Txn(s, last.txHash).executed
    /\ last.txHash \notin s._failedTransactions

\* C25: after execute has surfaced the failure of the target call, every
\* further execute of the hash is rejected, as TxAlreadyExecuted when the
\* guards let the call through, for every caller and clock reading; the retry
\* is open to Admin and Governance through executeFailed only.
C25_NoSecondExecuteAfterFailure ==
  (last.op = "execute" /\ last.r = "CallFailed") =>
    \A sender \in Accounts : \A t \in ProbeTimes(last.txHash) :
      LET again == executeTransaction_before(s, oracle, sender, last.txHash, t)
          retry == executeFailedTransaction_before(s, sender, last.txHash, t)
      IN /\ Reverted(again)
         /\ Idle => again.r = "TxAlreadyExecuted"
         /\ retry.r = "call" => AdminOrGovernance(sender)

ExecuteOnSelf(sender, h) ==
  LET before == executeTransaction_before(s, oracle, sender, h, now)
      c == SelfCall(before.s, Txn(s, h).value, Txn(s, h).data)
  IN IF before.r # "call" THEN before
     ELSE executeTransaction_after(s, IF c.success THEN c.s ELSE before.s, h, c.success)

\* C27: an in-window Queued action on the timelock itself whose payload is
\* updateDelays or updateThreatLevelDelays with parameters valid at execution
\* time is applied when any execute-authorized caller executes it, one with
\* neither the Admin nor the Governance role included; the same update called
\* directly by a caller that is neither Admin, Governance nor the timelock is
\* rejected with the storage unchanged.
C27_SelfCallConfigures ==
  /\ \A h \in Stored, sender \in Accounts :
       (InWindow(h) /\ Idle /\ CanExecute(sender) /\ Txn(s, h).target = Self
          /\ Txn(s, h).value = 0) =>
         LET d == Txn(s, h).data
             res == ExecuteOnSelf(sender, h)
         IN /\ (Len(d) = 7 /\ Selector(d) = SelUpdateDelays
                  /\ d[5] # 0 /\ d[6] >= d[5] /\ d[7] # 0) =>
                 /\ res.r = "ok"
                 /\ res.s = [SetTxn(s, h, [Txn(s, h) EXCEPT !.executed = TRUE])
                               EXCEPT !.minDelay = d[5], !.maxDelay = d[6],
                                      !.gracePeriod = d[7]]
            /\ (Len(d) = 8 /\ Selector(d) = SelUpdateThreatLevelDelays
                  /\ s.minDelay <= d[5] /\ d[5] <= d[6] /\ d[6] <= d[7] /\ d[7] <= d[8]
                  /\ d[8] <= s.maxDelay) =>
                 /\ res.r = "ok"
                 /\ res.s = [SetTxn(s, h, [Txn(s, h) EXCEPT !.executed = TRUE])
                               EXCEPT !.lowThreatDelay = d[5], !.mediumThreatDelay = d[6],
                                      !.highThreatDelay = d[7], !.criticalThreatDelay = d[8]]
  /\ \A sender \in Accounts :
       (~AdminOrGovernance(sender) /\ sender # Self) =>
         /\ \A b \in PolicyBounds :
              LET res == updateDelays(s, sender, b[1], b[2], b[3])
              IN res.r = "NotAuthorized" /\ res.s = s
         /\ \A d \in TierInputs :
              LET res == updateThreatLevelDelays(s, sender, d[1], d[2], d[3], d[4])
              IN res.r = "NotAuthorized" /\ res.s = s
  /\ (last.op = "execute" /\ last.r = "ok" /\ Txn(s, last.txHash).target = Self
        /\ Selector(Txn(s, last.txHash).data) = SelUpdateDelays) =>
       /\ s.minDelay = Txn(s, last.txHash).data[5]
       /\ s.maxDelay = Txn(s, last.txHash).data[6]
       /\ s.gracePeriod = Txn(s, last.txHash).data[7]

\* "exec", an Executor that is neither Admin nor Governance, has executed a
\* queued updateDelays on the timelock and the bounds are the payload's; its
\* direct call of updateDelays is rejected
C27_Witness ==
  /\ last.op = "execute"
  /\ last.r = "ok"
  /\ last.sender = "exec"
  /\ ~AdminOrGovernance("exec")
  /\ Txn(s, last.txHash).target = Self
  /\ Txn(s, last.txHash).data = DataSelf
  /\ s.gracePeriod = 2
  /\ updateDelays(s, "exec", 1, 30, 2).r = "NotAuthorized"

\* C28: getThreatLevel(target, data) is the address level of target when that
\* is not LOW; otherwise the level of the first four bytes of data when data
\* has at least four bytes and that level is not LOW; otherwise LOW.  So a
\* MEDIUM, HIGH or CRITICAL address level wins over every selector level, and
\* a LOW address level leaves a non-LOW selector level in force.
C28_Classify ==
  \A target \in Accounts \cup {Zero}, data \in ClassifyPayloads :
    LET byAddress == s.addressThreatLevels[target]
        first4 == IF Len(data) >= 4 THEN <<data[1], data[2], data[3], data[4]>> ELSE <<>>
        bySelector == IF first4 \in DOMAIN s.functionThreatLevels
                      THEN s.functionThreatLevels[first4] ELSE "LOW"
        level == getThreatLevel(s, target, data)
    IN /\ byAddress # "LOW" => level = byAddress
       /\ (byAddress = "LOW" /\ Len(data) >= 4 /\ bySelector # "LOW") => level = bySelector
       /\ (byAddress = "LOW" /\ (Len(data) < 4 \/ bySelector = "LOW")) => level = "LOW"

\* the address level of "tgt" is HIGH and the selector level of transfer is
\* CRITICAL: a transfer to "tgt" is HIGH, a transfer to "user" is CRITICAL,
\* and a three-byte payload to "user" is LOW
C28_Witness ==
  /\ last.op \in {"setFunctionThreatLevel", "setAddressThreatLevel"}
  /\ s.addressThreatLevels["tgt"] = "HIGH"
  /\ s.addressThreatLevels["user"] = "LOW"
  /\ s.functionThreatLevels[SelTransfer] = "CRITICAL"
  /\ getThreatLevel(s, "tgt", SelTransfer) = "HIGH"
  /\ getThreatLevel(s, "user", SelTransfer \o <<7>>) = "CRITICAL"
  /\ getThreatLevel(s, "user", <<1, 1, 1>>) = "LOW"

\* C29: updateDelays(min, max, grace) is rejected with minDelay, maxDelay and
\* gracePeriod unchanged when min = 0, max < min or grace = 0; otherwise, for
\* a caller that is Admin, Governance or the timelock itself, the three are
\* replaced together by the given values and nothing else changes.
C29_UpdateDelaysAllOrNothing ==
  /\ \A sender \in Accounts, a \in CfgValues, b \in CfgValues, c \in CfgValues :
       LET res == updateDelays(s, sender, a, b, c)
       IN IF a = 0 \/ b < a \/ c = 0
          THEN /\ Reverted(res)
               /\ res.s = s
          ELSE (AdminOrGovernance(sender) \/ sender = Self) =>
                 /\ res.r = "ok"
                 /\ res.s = [s EXCEPT !.minDelay = a, !.maxDelay = b, !.gracePeriod = c]
  /\ (last.op = "updateDelays") =>
       /\ s.minDelay # 0
       /\ s.maxDelay >= s.minDelay
       /\ s.gracePeriod # 0

\* an accepted updateDelays has replaced all three initial values
C29_Witness ==
  /\ last.op = "updateDelays"
  /\ last.r = "ok"
  /\ s.minDelay = 2
  /\ s.maxDelay = 3
  /\ s.gracePeriod = 1

\* an action for which executeTransaction by an authorized caller is rejected
\* with TxExpired
Expired(st, orc, h, t) ==
  \E sender \in Accounts : executeTransaction_before(st, orc, sender, h, t).r = "TxExpired"

\* C30: once executeTransaction of an action is rejected with TxExpired,
\* executeTransaction and executeFailedTransaction of it are rejected for
\* every caller after every later step, updateDelays included.
C30_ExpiryPermanent ==
  [][\A h \in Stored :
       Expired(s, oracle, h, now) =>
         \A sender \in Accounts :
           /\ Reverted(executeTransaction_before(s', oracle', sender, h, now'))
           /\ Reverted(executeFailedTransaction_before(s', sender, h, now'))]_vars

\* the operations that invoke target.call
CallingOps == {"execute", "executeExpired", "executeFailed"}

\* this step invokes the target call of h: a frame for h is pushed, or, for a
\* target that is the timelock itself, the call runs within the step
CallStarts(h) ==
  \/ /\ Len(stack') = Len(stack) + 1
     /\ stack'[Len(stack')].txHash = h
  \/ /\ stack' = stack
     /\ h \in Stored
     /\ Txn(s, h).target = Self
     /\ last' # last \/ s' # s
     /\ last'.op \in CallingOps
     /\ last'.txHash = h
     /\ last'.r \in {"ok", "CallFailed"}

\* C31: after a target call of an action has returned success, no step
\* invokes the target call of that action again.
C31_CallSucceedsAtMostOnce ==
  [][\A h \in called : ~CallStarts(h)]_vars

\* C32: in every state, every hash with the failed flag is stored with
\* executed = true and canceled = false.
C32_FailedImpliesExecuted ==
  \A h \in s._failedTransactions :
    /\ h \in Stored
    /\ Txn(s, h).executed
    /\ ~Txn(s, h).canceled

\* executeExpiredTransaction has finished with a failed target call
C32_Witness ==
  /\ last.op = "executeExpired"
  /\ last.r = "ok"
  /\ ~last.success
  /\ last.txHash \in s._failedTransactions
  /\ stack = <<>>

\* C33: in every state no stored action has executed = true and
\* canceled = true together.
C33_NotExecutedAndCanceled ==
  \A h \in Stored : ~(Txn(s, h).executed /\ Txn(s, h).canceled)

\* a hash that was canceled, queued again and then executed
C33_Witness ==
  /\ stack = <<>>
  /\ \E h \in wasCanceled \cap Stored : Txn(s, h).executed

\* C34: in every state queuedTransactions holds exactly the stored hashes
\* whose record has canceled = false: execution, failed or not, leaves the
\* flag set and cancelTransaction clears it.
C34_QueuedFlagIffNotCanceled ==
  /\ s.queuedTransactions \subseteq Stored
  /\ \A h \in Stored : (h \in s.queuedTransactions) <=> ~Txn(s, h).canceled

\* one action executed and marked failed with the flag set, another canceled
\* with the flag cleared
C34_Witness ==
  /\ \E h \in Stored :
       /\ Txn(s, h).executed
       /\ h \in s._failedTransactions
       /\ h \in s.queuedTransactions
  /\ \E h \in Stored :
       /\ Txn(s, h).canceled
       /\ h \notin s.queuedTransactions

\* executeTransaction of h at clock t passes its timing check for every
\* caller, and reaches target.call for every execute-authorized caller
ExecuteOpen(h, t) ==
  \A sender \in Accounts :
    LET r == executeTransaction_before(s, oracle, sender, h, t).r
    IN /\ r \notin {"TxNotReady", "TxExpired"}
       /\ CanExecute(sender) => r = "call"

\* executeExpiredTransaction of h at clock t passes its timing check for every
\* caller, and reaches target.call for every Admin or Governance caller
ExpiredOpen(h, t) ==
  \A sender \in Accounts :
    LET r == executeExpiredTransaction_before(s, sender, h, t).r
    IN /\ r # "TransactionNotExpired"
       /\ AdminOrGovernance(sender) => r = "call"

ExecuteClosed(h, t) ==
  \A sender \in Accounts : executeTransaction_before(s, oracle, sender, h, t).r = "TxExpired"

ExpiredClosed(h, t) ==
  \A sender \in Accounts :
    executeExpiredTransaction_before(s, sender, h, t).r = "TransactionNotExpired"

\* C35: for a Queued action and every clock value t >= eta, executeTransaction
\* passes its timing check exactly when t <= eta + gracePeriod and
\* executeExpiredTransaction exactly when t > eta + gracePeriod, so one of the
\* two is open and the other closed at each such t.
C35_OnePathOpen ==
  \A h \in Stored :
    (IsQueued(s, h) /\ Idle /\ ~balanceOfReverts(s, oracle)) =>
      \A t \in ProbeTimes(h) :
        t >= Txn(s, h).eta =>
          IF t <= Txn(s, h).eta + s.gracePeriod
          THEN ExecuteOpen(h, t) /\ ExpiredClosed(h, t)
          ELSE ExpiredOpen(h, t) /\ ExecuteClosed(h, t)

\* a Queued action on the last instant of its window, with a grace period
\* other than the initial one
C35_Witness ==
  /\ Idle
  /\ s.gracePeriod # InitialGracePeriod
  /\ \E h \in Stored :
       /\ IsQueued(s, h)
       /\ now = Txn(s, h).eta + s.gracePeriod
       /\ ExecuteOpen(h, now)
       /\ ExpiredOpen(h, now + 1)

\* C36: across a step that starts and ends with the pause switch on, no entry
\* is stored and the executed, canceled and failed flags of every stored
\* action keep their values.
C36_PausedFreezesLifecycle ==
  [][(s._paused /\ s'._paused) =>
       /\ DOMAIN s'._timelockTransactions = Stored
       /\ \A h \in Stored :
            /\ Txn(s', h).executed = Txn(s, h).executed
            /\ Txn(s', h).canceled = Txn(s, h).canceled
            /\ (h \in s'._failedTransactions) = (h \in s._failedTransactions)]_vars

\* C37: with the pause switch off, the delays fixed, the clock advancing and
\* execute and executeExpired attempted fairly, every action that is Queued
\* outside a target call is eventually executed or canceled, also when its
\* target call fails on every attempt.
C37_QueuedEventuallyLeaves ==
  \A h \in LiveHashes :
    (stack = <<>> /\ h \in Stored /\ IsQueued(s, h))
      ~> (h \in Stored /\ (Txn(s, h).executed \/ Txn(s, h).canceled))

\* an action has left the Queued state through executeExpiredTransaction with
\* a failed target call
C37_Witness ==
  /\ stack = <<>>
  /\ last.op = "executeExpired"
  /\ ~last.success
  /\ last.txHash \in LiveHashes
  /\ Txn(s, last.txHash).executed
  /\ last.txHash \notin called

\* C38: after initialize and any sequence of grantContractRole and
\* revokeContractRole, ADMIN_ROLE and GOVERNANCE_ROLE have at least one holder
\* each, and no step takes PROPOSER_ROLE or EXECUTOR_ROLE from one or more
\* holders to none.
C38_RolesKeepAHolder ==
  /\ [](getRoleMemberCount(s, ADMIN_ROLE) >= 1 /\ getRoleMemberCount(s, GOVERNANCE_ROLE) >= 1)
  /\ [][\A role \in {PROPOSER_ROLE, EXECUTOR_ROLE} :
          getRoleMemberCount(s, role) >= 1 => getRoleMemberCount(s', role) >= 1]_vars

\* revocations have brought each of the four roles down to a single holder,
\* the Admin holder being another account than the initial one
C38_Witness ==
  /\ last.op = "revokeRole"
  /\ \A role \in GuardedRoles : getRoleMemberCount(s, role) = 1
  /\ ~hasRole(s, ADMIN_ROLE, Admin)
  /\ ~hasRole(s, GOVERNANCE_ROLE, Admin)

\* C39: the target, value, data and eta stored under a hash are the same
\* after every step that leaves the entry stored: execution, retry, marking
\* failed, cancel, a later queue of the same hash and updates of the delays
\* do not change them.
C39_EntryFieldsFixed ==
  [][\A h \in Stored \cap DOMAIN s'._timelockTransactions :
       /\ Txn(s', h).target = Txn(s, h).target
       /\ Txn(s', h).value = Txn(s, h).value
       /\ Txn(s', h).data = Txn(s, h).data
       /\ Txn(s', h).eta = Txn(s, h).eta]_vars

\* updateDelays has been accepted with an action stored that was canceled
\* and queued again under the same hash
C39_Witness ==
  /\ last.op = "updateDelays"
  /\ s.gracePeriod # InitialGracePeriod
  /\ \E h \in Stored \cap wasCanceled :
       /\ IsQueued(s, h)
       /\ h = Hash(Txn(s, h).target, Txn(s, h).value, Txn(s, h).data, Txn(s, h).eta)

====
